---- MODULE Spec2Model ----
(***************************************************************************)
(* Governance contracts of tokamak-dao-v2: the vTON token, the             *)
(* DelegateRegistry, the Timelock and the SecurityCouncil, each modelled   *)
(* as a state machine whose actions are the external functions of the      *)
(* contract.  Every function has an operator ...Err that computes the       *)
(* error the call reverts with ("OK" when it goes through); a call that      *)
(* reverts leaves the whole state unchanged.                                 *)
(* Time is block.timestamp in seconds; every AdvanceTime step is a new       *)
(* block.                                                                    *)
(***************************************************************************)
EXTENDS Integers, Sequences, FiniteSets

(***************************************************************************)
(* Bounds of the exploration                                                 *)
(***************************************************************************)
MaxSupply == 3        \* minting stops once totalSupply would exceed this
MaxAmt == 2           \* largest amount passed to mint/delegate/undelegate/redelegate
MaxBlock == 2         \* number of blocks explored
GenesisTime == 1      \* block.timestamp of the deployment block
InitialBalance == 1   \* vTON minted to each holder by the deployment fixture
MaxOwners == 2        \* longest owner list of a delegator that is explored
MaxRegisterBlock == 1 \* registrations are explored up to this block
MaxQueued == 2        \* number of Timelock entries that are queued
MaxTimelockBlock == 5 \* number of blocks explored for the Timelock
MaxActions == 2       \* number of emergency actions that are created
MaxProposals == 2     \* number of proposals that are created
MaxGovBlock == 6      \* number of blocks explored for the DAOGovernor
InitialTon == 2       \* TON held by the proposing account, in units of the creation cost

(***************************************************************************)
(* Accounts                                                                  *)
(***************************************************************************)
ZERO == "0x0"                     \* address(0)
OWNER == "owner"                  \* initialOwner of vTON and of the registry
Addr == {"a", "b", "c"}           \* externally owned accounts
Holders == {"a", "b"}             \* accounts that receive minted vTON and delegate
Registrants == {"b", "c"}         \* accounts that register as delegators
REGISTRY == "registry"            \* address(this) of the DelegateRegistry
ADMIN == "admin"                  \* admin_ of the Timelock
GOV == "governor"                 \* the DAOGovernor contract
GOV2 == "governor2"               \* a replacement governor
COUNCIL == "council"              \* the SecurityCouncil contract
TIMELOCK == "timelock"            \* the Timelock contract
DAO == "dao"                      \* daoGovernor_ of the SecurityCouncil
TARGET == "target"                \* protocolTarget_ of the SecurityCouncil
CouncilAddr == {"m1", "m2", "m3"} \* accounts that are or become council members
Targets == Registrants \cup {ZERO} \* delegator arguments of delegate/undelegate/redelegate
DEAD == "0xdead"                  \* the burn sink of the proposal creation cost
GUARDIAN == "guardian"            \* the proposal guardian once it is set

(***************************************************************************)
(* Program constants                                                         *)
(***************************************************************************)
MAX_CAP == 10000
DEFAULT_CAP == 2000
DEFAULT_PERIOD == 604800
UINT_MAX == 2147483647            \* stands for type(uint256).max (unlimited allowance)
MAX_EMISSION_RATIO == 100000000   \* 1e18 in the source; the ratio is kept in units of 1e10
MIN_MEMBERS == 2
MINIMUM_DELAY == 3600             \* 1 hours
MAXIMUM_DELAY == 2592000          \* 30 days
DEFAULT_QUORUM == 400
GRACE_PERIOD == 1209600           \* 14 days

CapChoices == {DEFAULT_CAP, MAX_CAP, MAX_CAP + 1}
PeriodChoices == {0, DEFAULT_PERIOD}
ExpiryChoices == {0, DEFAULT_PERIOD}
\* seconds between two explored blocks: one full default delegation period
BlockInterval == DEFAULT_PERIOD
Amounts == 0..MaxAmt

VARIABLES
    now,                          \* block.timestamp
    blockNumber,                  \* block.number
    \* vTON
    balances, totalSupply, allowance, minters, emissionRatio,
    \* DelegateRegistry
    delegationCap, delegationPeriodRequirement, autoExpiryPeriod,
    delegators, delegations, totalDelegated, totalDelegatedBy,
    delegationTimestamps, delegatorsToOwners,
    \* Timelock
    admin, governor, securityCouncil, delay,
    queuedTransactions, canceledTransactions, transactionEta,
    executions,                   \* per entry, the timestamps at which its target call was made
    \* SecurityCouncil
    daoGovernor, protocolTarget, threshold, actionCount, members, isMember, memberIndex,
    actions, pendingActionIds, approvals,
    paused,                       \* Pausable._paused
    dispatched,                   \* per action id, the number of times its effect was applied
    thresholdUpdated,             \* newThreshold of the last ThresholdUpdated event, 0 if none
    \* DAOGovernor
    tonBalances,                  \* TON.balanceOf
    proposalCount, proposals,
    proposalGuardian, quorum, proposalCreationCost, votingDelay, votingPeriod

envVars == <<now, blockNumber>>
tokenVars == <<balances, totalSupply, allowance, minters, emissionRatio>>
registryVars == <<delegationCap, delegationPeriodRequirement, autoExpiryPeriod,
                  delegators, delegations, totalDelegated, totalDelegatedBy,
                  delegationTimestamps, delegatorsToOwners>>
timelockVars == <<admin, governor, securityCouncil, delay,
                  queuedTransactions, canceledTransactions, transactionEta, executions>>
councilVars == <<daoGovernor, protocolTarget, threshold, actionCount, members, isMember,
                 memberIndex, actions, pendingActionIds, approvals, paused, dispatched,
                 thresholdUpdated>>
governorVars == <<tonBalances, proposalCount, proposals, proposalGuardian, quorum,
                  proposalCreationCost, votingDelay, votingPeriod>>
vars == <<envVars, tokenVars, registryVars, timelockVars, councilVars, governorVars>>

NoDelegator == [profile |-> "", registeredAt |-> 0, isActive |-> FALSE]
NoDelegation == [delegator |-> ZERO, amount |-> 0, delegatedAt |-> 0, expiresAt |-> 0]

(***************************************************************************)
(* State after the constructors                                              *)
(***************************************************************************)
InitEnv ==
    /\ now = GenesisTime
    /\ blockNumber = 1

InitToken ==
    /\ balances = [x \in Addr \cup {REGISTRY} |-> 0]
    /\ totalSupply = 0
    /\ allowance = [x \in Addr |-> 0]
    /\ minters = {}
    /\ emissionRatio = MAX_EMISSION_RATIO

\* the token as the registry's deployment fixture leaves it: the owner is a minter,
\* every holder has been minted InitialBalance and has approved the registry
InitTokenFixture ==
    /\ balances = [x \in Addr \cup {REGISTRY} |-> IF x \in Holders THEN InitialBalance ELSE 0]
    /\ totalSupply = InitialBalance * Cardinality(Holders)
    /\ allowance = [x \in Addr |-> IF x \in Holders THEN UINT_MAX ELSE 0]
    /\ minters = {OWNER}
    /\ emissionRatio = MAX_EMISSION_RATIO

\* the governor as deployed, with the proposing account funded
InitGovernor ==
    /\ tonBalances = [x \in Holders \cup {DEAD} |-> IF x = "a" THEN InitialTon ELSE 0]
    /\ proposalCount = 0
    /\ proposals = <<>>
    /\ proposalGuardian = ZERO
    /\ quorum = DEFAULT_QUORUM
    /\ proposalCreationCost = 1
    /\ votingDelay = 1
    /\ votingPeriod = 1

InitRegistry ==
    /\ delegationCap = DEFAULT_CAP
    /\ delegationPeriodRequirement = DEFAULT_PERIOD
    /\ autoExpiryPeriod = 0
    /\ delegators = [x \in Addr |-> NoDelegator]
    /\ delegations = [o \in Addr |-> [d \in Addr |-> NoDelegation]]
    /\ totalDelegated = [x \in Addr |-> 0]
    /\ totalDelegatedBy = [x \in Addr |-> 0]
    /\ delegationTimestamps = [d \in Addr |-> [o \in Addr |-> 0]]
    /\ delegatorsToOwners = [d \in Addr |-> <<>>]

(***************************************************************************)
(* Environment                                                               *)
(***************************************************************************)
AdvanceTime(dt, lastBlock) ==
    /\ blockNumber < lastBlock
    /\ now' = now + dt
    /\ blockNumber' = blockNumber + 1
    /\ UNCHANGED <<tokenVars, registryVars, timelockVars, councilVars, governorVars>>

(***************************************************************************)
(* vTON                                                                      *)
(***************************************************************************)
SetMinter(caller, minter, allowed) ==
    LET err == IF caller # OWNER THEN "OwnableUnauthorizedAccount"
               ELSE IF minter = ZERO THEN "ZeroAddress"
               ELSE "OK"
    IN /\ minters' = IF err # "OK" THEN minters
                     ELSE IF allowed THEN minters \cup {minter} ELSE minters \ {minter}
       /\ UNCHANGED <<councilVars, timelockVars, governorVars, envVars, balances, totalSupply, allowance, emissionRatio, registryVars>>

\* amount * emissionRatio fits the word: the checked multiplication of mint
\* does not panic
ProductFits(amount) == emissionRatio = 0 \/ amount <= UINT_MAX \div emissionRatio

MintErr(caller, to, amount) ==
    IF caller \notin minters THEN "NotMinter"
    ELSE IF to = ZERO THEN "ZeroAddress"
    ELSE IF ~ProductFits(amount) THEN "Panic"
    ELSE "OK"

\* the scaling of mint with the division rounding up
AdjustedAmount_RoundsUp(amount) ==
    (amount * emissionRatio) \div MAX_EMISSION_RATIO
        + (IF (amount * emissionRatio) % MAX_EMISSION_RATIO = 0 THEN 0 ELSE 1)

AdjustedAmount(amount) == (amount * emissionRatio) \div MAX_EMISSION_RATIO

Mint(caller, to, amount) ==
    LET err == MintErr(caller, to, amount)
        adjustedAmount == IF err = "OK" THEN AdjustedAmount(amount) ELSE 0
    IN /\ totalSupply + adjustedAmount <= MaxSupply
       /\ IF err = "OK" /\ adjustedAmount # 0
          THEN /\ balances' = [balances EXCEPT ![to] = @ + adjustedAmount]
               /\ totalSupply' = totalSupply + adjustedAmount
          ELSE UNCHANGED <<balances, totalSupply>>
       /\ UNCHANGED <<councilVars, timelockVars, governorVars, envVars, allowance, minters, emissionRatio, registryVars>>

SetEmissionRatioErr(caller, ratio) ==
    IF caller # OWNER THEN "OwnableUnauthorizedAccount"
    ELSE IF ratio > MAX_EMISSION_RATIO THEN "InvalidEmissionRatio"
    ELSE "OK"

SetEmissionRatio(caller, ratio) ==
    /\ emissionRatio' = IF SetEmissionRatioErr(caller, ratio) = "OK" THEN ratio
                        ELSE emissionRatio
    /\ UNCHANGED <<councilVars, timelockVars, governorVars, envVars, balances, totalSupply, allowance, minters, registryVars>>

Approve(owner, value) ==
    /\ allowance' = [allowance EXCEPT ![owner] = value]
    /\ UNCHANGED <<councilVars, timelockVars, governorVars, envVars, balances, totalSupply, minters, emissionRatio, registryVars>>

\* ERC20.transferFrom(owner, registry, amount) as called by the registry
TransferFromErr(owner, amount) ==
    IF allowance[owner] # UINT_MAX /\ allowance[owner] < amount THEN "ERC20InsufficientAllowance"
    ELSE IF balances[owner] < amount THEN "ERC20InsufficientBalance"
    ELSE "OK"

SpentAllowance(owner, amount) ==
    IF allowance[owner] = UINT_MAX THEN allowance
    ELSE [allowance EXCEPT ![owner] = @ - amount]

\* a transfer that takes one unit off what the recipient receives
Moved_WithFee(from, to, amount) ==
    [balances EXCEPT ![from] = @ - amount,
                     ![to] = @ + (IF amount > 0 THEN amount - 1 ELSE 0)]

Moved(from, to, amount) ==
    [balances EXCEPT ![from] = @ - amount, ![to] = @ + amount]

(***************************************************************************)
(* DelegateRegistry: registration                                            *)
(***************************************************************************)
\* registerDelegator without the check of an existing registration
RegisterDelegatorErr_NoRegisteredCheck(caller, profile) ==
    IF profile = "" THEN "EmptyProfile" ELSE "OK"

RegisterDelegatorErr(caller, profile) ==
    IF profile = "" THEN "EmptyProfile"
    ELSE IF delegators[caller].registeredAt # 0 THEN "AlreadyRegisteredDelegator"
    ELSE "OK"

RegisterDelegator(caller, profile) ==
    LET err == RegisterDelegatorErr(caller, profile)
    IN /\ blockNumber <= MaxRegisterBlock
       /\ delegators' = IF err # "OK" THEN delegators
                        ELSE [delegators EXCEPT ![caller] =
                                [profile |-> profile, registeredAt |-> now, isActive |-> TRUE]]
       /\ UNCHANGED <<councilVars, timelockVars, governorVars, envVars, tokenVars, delegationCap, delegationPeriodRequirement,
                      autoExpiryPeriod, delegations, totalDelegated, totalDelegatedBy,
                      delegationTimestamps, delegatorsToOwners>>

UpdateDelegatorErr(caller, profile) ==
    IF profile = "" THEN "EmptyProfile"
    ELSE IF delegators[caller].registeredAt = 0 THEN "NotRegisteredDelegator"
    ELSE "OK"

UpdateDelegator(caller, profile) ==
    LET err == UpdateDelegatorErr(caller, profile)
    IN /\ delegators' = IF err # "OK" THEN delegators
                        ELSE [delegators EXCEPT ![caller].profile = profile]
       /\ UNCHANGED <<councilVars, timelockVars, governorVars, envVars, tokenVars, delegationCap, delegationPeriodRequirement,
                      autoExpiryPeriod, delegations, totalDelegated, totalDelegatedBy,
                      delegationTimestamps, delegatorsToOwners>>

DeactivateDelegatorErr(caller) ==
    IF delegators[caller].registeredAt = 0 THEN "NotRegisteredDelegator" ELSE "OK"

\* a deactivation that also wipes the delegations made to the caller
DeactivateDelegator_ClearsDelegations(caller) ==
    LET err == DeactivateDelegatorErr(caller)
    IN /\ delegators' = IF err # "OK" THEN delegators
                        ELSE [delegators EXCEPT ![caller].isActive = FALSE]
       /\ delegations' = IF err # "OK" THEN delegations
                         ELSE [o \in DOMAIN delegations |->
                                  [delegations[o] EXCEPT ![caller] = NoDelegation]]
       /\ UNCHANGED <<councilVars, timelockVars, governorVars, envVars, tokenVars, delegationCap, delegationPeriodRequirement,
                      autoExpiryPeriod, totalDelegated, totalDelegatedBy,
                      delegationTimestamps, delegatorsToOwners>>

DeactivateDelegator(caller) ==
    LET err == DeactivateDelegatorErr(caller)
    IN /\ delegators' = IF err # "OK" THEN delegators
                        ELSE [delegators EXCEPT ![caller].isActive = FALSE]
       /\ UNCHANGED <<councilVars, timelockVars, governorVars, envVars, tokenVars, delegationCap, delegationPeriodRequirement,
                      autoExpiryPeriod, delegations, totalDelegated, totalDelegatedBy,
                      delegationTimestamps, delegatorsToOwners>>

(***************************************************************************)
(* DelegateRegistry: delegation                                              *)
(***************************************************************************)
IsActiveDelegator(d) == delegators[d].registeredAt # 0 /\ delegators[d].isActive

MaxDelegation == (totalSupply * delegationCap) \div MAX_CAP

\* delegate without the delegation cap check
DelegateErr_NoCap(caller, delegator, amount) ==
    IF delegator = ZERO THEN "ZeroAddress"
    ELSE IF amount = 0 THEN "ZeroAmount"
    ELSE IF delegator = caller THEN "SelfDelegationNotAllowed"
    ELSE IF ~IsActiveDelegator(delegator) THEN "DelegatorNotActive"
    ELSE TransferFromErr(caller, amount)

\* delegate without the check that the delegator is registered and active
DelegateErr_NoActiveCheck(caller, delegator, amount) ==
    IF delegator = ZERO THEN "ZeroAddress"
    ELSE IF amount = 0 THEN "ZeroAmount"
    ELSE IF delegator = caller THEN "SelfDelegationNotAllowed"
    ELSE IF totalDelegated[delegator] + amount > MaxDelegation THEN "DelegationCapExceeded"
    ELSE TransferFromErr(caller, amount)

DelegateErr(caller, delegator, amount) ==
    IF delegator = ZERO THEN "ZeroAddress"
    ELSE IF amount = 0 THEN "ZeroAmount"
    ELSE IF delegator = caller THEN "SelfDelegationNotAllowed"
    ELSE IF ~IsActiveDelegator(delegator) THEN "DelegatorNotActive"
    ELSE IF totalDelegated[delegator] + amount > MaxDelegation THEN "DelegationCapExceeded"
    ELSE TransferFromErr(caller, amount)

\* the record written by delegate / the destination record written by redelegate
\* a top-up that overwrites the recorded amount instead of adding to it
ToppedUp_Replaces(rec, delegator, amount) ==
    [delegator |-> delegator,
     amount |-> amount,
     delegatedAt |-> now,
     expiresAt |-> IF autoExpiryPeriod > 0 THEN now + autoExpiryPeriod ELSE rec.expiresAt]

ToppedUp(rec, delegator, amount) ==
    [delegator |-> delegator,
     amount |-> rec.amount + amount,
     delegatedAt |-> now,
     expiresAt |-> IF autoExpiryPeriod > 0 THEN now + autoExpiryPeriod ELSE rec.expiresAt]

\* a withdrawal that pays out but leaves the recorded amount as it was
Withdrawn_KeepsAmount(rec, amount) == rec

\* the record left by undelegate / the source record left by redelegate
Withdrawn(rec, amount) ==
    IF rec.amount - amount = 0 THEN NoDelegation
    ELSE [rec EXCEPT !.amount = @ - amount]

Delegate(caller, delegator, amount) ==
    LET err == DelegateErr(caller, delegator, amount)
    IN /\ delegator # ZERO => Len(delegatorsToOwners[delegator]) < MaxOwners
       /\ IF err = "OK"
          THEN /\ balances' = Moved(caller, REGISTRY, amount)
               /\ allowance' = SpentAllowance(caller, amount)
               /\ delegations' = [delegations EXCEPT ![caller][delegator] =
                                     ToppedUp(@, delegator, amount)]
               /\ totalDelegated' = [totalDelegated EXCEPT ![delegator] = @ + amount]
               /\ totalDelegatedBy' = [totalDelegatedBy EXCEPT ![caller] = @ + amount]
               /\ delegatorsToOwners' =
                     IF delegationTimestamps[delegator][caller] = 0
                     THEN [delegatorsToOwners EXCEPT ![delegator] = Append(@, caller)]
                     ELSE delegatorsToOwners
               /\ delegationTimestamps' =
                     [delegationTimestamps EXCEPT ![delegator][caller] = now]
          ELSE UNCHANGED <<balances, allowance, delegations, totalDelegated,
                           totalDelegatedBy, delegatorsToOwners, delegationTimestamps>>
       /\ UNCHANGED <<councilVars, timelockVars, governorVars, envVars, totalSupply, minters, emissionRatio, delegationCap,
                      delegationPeriodRequirement, autoExpiryPeriod, delegators>>

\* undelegate without the comparison with the recorded amount
UndelegateErr_NoRecordCheck(caller, delegator, amount) ==
    IF delegator = ZERO THEN "ZeroAddress"
    ELSE IF amount = 0 THEN "ZeroAmount"
    ELSE IF balances[REGISTRY] < amount THEN "ERC20InsufficientBalance"
    ELSE "OK"

\* an undelegate that asks for the delegator to be active
UndelegateErr_ActiveOnly(caller, delegator, amount) ==
    IF delegator = ZERO THEN "ZeroAddress"
    ELSE IF amount = 0 THEN "ZeroAmount"
    ELSE IF ~IsActiveDelegator(delegator) THEN "DelegatorNotActive"
    ELSE IF delegations[caller][delegator].amount < amount THEN "InsufficientDelegation"
    ELSE IF balances[REGISTRY] < amount THEN "ERC20InsufficientBalance"
    ELSE "OK"

UndelegateErr(caller, delegator, amount) ==
    IF delegator = ZERO THEN "ZeroAddress"
    ELSE IF amount = 0 THEN "ZeroAmount"
    ELSE IF delegations[caller][delegator].amount < amount THEN "InsufficientDelegation"
    ELSE IF balances[REGISTRY] < amount THEN "ERC20InsufficientBalance"
    ELSE "OK"

\* an undelegate that restarts the maturity period of what is left
Undelegate_RestartsMaturity(caller, delegator, amount) ==
    LET err == UndelegateErr(caller, delegator, amount)
    IN /\ IF err = "OK"
          THEN /\ delegations' = [delegations EXCEPT ![caller][delegator] =
                                     Withdrawn(@, amount)]
               /\ delegationTimestamps' =
                     IF delegations[caller][delegator].amount - amount = 0
                     THEN [delegationTimestamps EXCEPT ![delegator][caller] = 0]
                     ELSE [delegationTimestamps EXCEPT ![delegator][caller] = now]
               /\ totalDelegated' = [totalDelegated EXCEPT ![delegator] = @ - amount]
               /\ totalDelegatedBy' = [totalDelegatedBy EXCEPT ![caller] = @ - amount]
               /\ balances' = Moved(REGISTRY, caller, amount)
          ELSE UNCHANGED <<balances, delegations, totalDelegated, totalDelegatedBy,
                           delegationTimestamps>>
       /\ UNCHANGED <<councilVars, timelockVars, governorVars, envVars, totalSupply, allowance, minters, emissionRatio,
                      delegationCap, delegationPeriodRequirement, autoExpiryPeriod,
                      delegators, delegatorsToOwners>>

Undelegate(caller, delegator, amount) ==
    LET err == UndelegateErr(caller, delegator, amount)
    IN /\ IF err = "OK"
          THEN /\ delegations' = [delegations EXCEPT ![caller][delegator] =
                                     Withdrawn(@, amount)]
               /\ delegationTimestamps' =
                     IF delegations[caller][delegator].amount - amount = 0
                     THEN [delegationTimestamps EXCEPT ![delegator][caller] = 0]
                     ELSE delegationTimestamps
               /\ totalDelegated' = [totalDelegated EXCEPT ![delegator] = @ - amount]
               /\ totalDelegatedBy' = [totalDelegatedBy EXCEPT ![caller] = @ - amount]
               /\ balances' = Moved(REGISTRY, caller, amount)
          ELSE UNCHANGED <<balances, delegations, totalDelegated, totalDelegatedBy,
                           delegationTimestamps>>
       /\ UNCHANGED <<councilVars, timelockVars, governorVars, envVars, totalSupply, allowance, minters, emissionRatio,
                      delegationCap, delegationPeriodRequirement, autoExpiryPeriod,
                      delegators, delegatorsToOwners>>

\* redelegate without the delegation cap check
RedelegateErr_NoCap(caller, fromDelegator, toDelegator, amount) ==
    IF fromDelegator = ZERO \/ toDelegator = ZERO THEN "ZeroAddress"
    ELSE IF amount = 0 THEN "ZeroAmount"
    ELSE IF toDelegator = caller THEN "SelfDelegationNotAllowed"
    ELSE IF ~IsActiveDelegator(toDelegator) THEN "DelegatorNotActive"
    ELSE IF delegations[caller][fromDelegator].amount < amount THEN "InsufficientDelegation"
    ELSE "OK"

RedelegateErr(caller, fromDelegator, toDelegator, amount) ==
    IF fromDelegator = ZERO \/ toDelegator = ZERO THEN "ZeroAddress"
    ELSE IF amount = 0 THEN "ZeroAmount"
    ELSE IF toDelegator = caller THEN "SelfDelegationNotAllowed"
    ELSE IF ~IsActiveDelegator(toDelegator) THEN "DelegatorNotActive"
    ELSE IF delegations[caller][fromDelegator].amount < amount THEN "InsufficientDelegation"
    ELSE IF totalDelegated[toDelegator] + amount > MaxDelegation THEN "DelegationCapExceeded"
    ELSE "OK"

\* the owner list of the destination after redelegate
RedelegateOwners(caller, toDelegator) == delegatorsToOwners

Redelegate(caller, fromDelegator, toDelegator, amount) ==
    LET err == RedelegateErr(caller, fromDelegator, toDelegator, amount)
        emptied == delegations[caller][fromDelegator].amount - amount = 0
        afterFrom == [delegations EXCEPT ![caller][fromDelegator] = Withdrawn(@, amount)]
        stampsAfterFrom == IF emptied
                           THEN [delegationTimestamps EXCEPT ![fromDelegator][caller] = 0]
                           ELSE delegationTimestamps
        totalAfterFrom == [totalDelegated EXCEPT ![fromDelegator] = @ - amount]
    IN /\ IF err = "OK"
          THEN /\ delegations' = [afterFrom EXCEPT ![caller][toDelegator] =
                                     ToppedUp(@, toDelegator, amount)]
               /\ totalDelegated' = [totalAfterFrom EXCEPT ![toDelegator] = @ + amount]
               /\ delegationTimestamps' =
                     [stampsAfterFrom EXCEPT ![toDelegator][caller] = now]
               /\ delegatorsToOwners' = RedelegateOwners(caller, toDelegator)
          ELSE UNCHANGED <<delegations, totalDelegated, delegationTimestamps,
                           delegatorsToOwners>>
       /\ UNCHANGED <<councilVars, timelockVars, governorVars, envVars, tokenVars, delegationCap, delegationPeriodRequirement,
                      autoExpiryPeriod, delegators, totalDelegatedBy>>

(***************************************************************************)
(* DelegateRegistry: views                                                   *)
(***************************************************************************)
getTotalDelegated(delegator) == totalDelegated[delegator]

getTotalDelegatedBy(owner) == totalDelegatedBy[owner]

\* what one entry of the owner list adds to the voting power at time t
Counted(delegator, owner, t) ==
    LET delegatedAt == delegationTimestamps[delegator][owner]
        delegation == delegations[owner][delegator]
    IN IF /\ delegatedAt > 0
          /\ delegatedAt <= t - delegationPeriodRequirement
          /\ delegation.amount > 0
          /\ (delegation.expiresAt = 0 \/ delegation.expiresAt > t)
       THEN delegation.amount
       ELSE 0

RECURSIVE SumCounted(_, _, _)
SumCounted(delegator, owners, t) ==
    IF owners = <<>> THEN 0
    ELSE Counted(delegator, Head(owners), t) + SumCounted(delegator, Tail(owners), t)

\* block.timestamp - delegationPeriodRequirement is checked arithmetic: the view
\* reverts (here: Reverted) when the period is longer than the timestamp
Reverted == -1

VotingPowerAt(delegator, t) ==
    IF t - delegationPeriodRequirement < 0 THEN Reverted
    ELSE SumCounted(delegator, delegatorsToOwners[delegator], t)

getVotingPower(delegator) == VotingPowerAt(delegator, now)

(***************************************************************************)
(* DelegateRegistry: admin                                                   *)
(***************************************************************************)
SetDelegationCap(caller, cap) ==
    LET err == IF caller # OWNER THEN "OwnableUnauthorizedAccount"
               ELSE IF cap > MAX_CAP THEN "InvalidCap"
               ELSE "OK"
    IN /\ delegationCap' = IF err = "OK" THEN cap ELSE delegationCap
       /\ UNCHANGED <<councilVars, timelockVars, governorVars, envVars, tokenVars, delegationPeriodRequirement, autoExpiryPeriod,
                      delegators, delegations, totalDelegated, totalDelegatedBy,
                      delegationTimestamps, delegatorsToOwners>>

SetDelegationPeriodRequirement(caller, period) ==
    LET err == IF caller # OWNER THEN "OwnableUnauthorizedAccount" ELSE "OK"
    IN /\ delegationPeriodRequirement' = IF err = "OK" THEN period
                                         ELSE delegationPeriodRequirement
       /\ UNCHANGED <<councilVars, timelockVars, governorVars, envVars, tokenVars, delegationCap, autoExpiryPeriod,
                      delegators, delegations, totalDelegated, totalDelegatedBy,
                      delegationTimestamps, delegatorsToOwners>>

SetAutoExpiryPeriod(caller, period) ==
    LET err == IF caller # OWNER THEN "OwnableUnauthorizedAccount" ELSE "OK"
    IN /\ autoExpiryPeriod' = IF err = "OK" THEN period ELSE autoExpiryPeriod
       /\ UNCHANGED <<councilVars, timelockVars, governorVars, envVars, tokenVars, delegationCap, delegationPeriodRequirement,
                      delegators, delegations, totalDelegated, totalDelegatedBy,
                      delegationTimestamps, delegatorsToOwners>>

(***************************************************************************)
(* SecurityCouncil                                                           *)
(***************************************************************************)
timelockAddress == TIMELOCK

\* the external functions of the Timelock; it has no fallback function
TimelockSelectors ==
    {"queueTransaction", "executeTransaction", "cancelTransaction", "cancelTransactionByHash",
     "setGovernor", "setSecurityCouncil", "setDelay", "setAdmin"}

NoAction == [actionType |-> "", target |-> ZERO, data |-> "", createdAt |-> 0,
             executedAt |-> 0, executed |-> FALSE, approvers |-> <<>>]

\* _addMember, on the member fields (members, isMember, memberIndex)
AddedMember(m, member, isFoundation, t) ==
    [members |-> Append(m.members, [account |-> member, isFoundation |-> isFoundation,
                                    addedAt |-> t]),
     isMember |-> [m.isMember EXCEPT ![member] = TRUE],
     memberIndex |-> [m.memberIndex EXCEPT ![member] = Len(m.members)]]

RECURSIVE AddedMembers(_, _, _)
AddedMembers(m, externalMembers, t) ==
    IF externalMembers = <<>> THEN m
    ELSE AddedMembers(AddedMember(m, Head(externalMembers), FALSE, t), Tail(externalMembers), t)

\* the constructor, with foundationMember = "m1"
InitCouncil(externalMembers) ==
    LET none == [members |-> <<>>, isMember |-> [a \in CouncilAddr |-> FALSE],
                 memberIndex |-> [a \in CouncilAddr |-> 0]]
        m == AddedMembers(AddedMember(none, "m1", TRUE, GenesisTime), externalMembers,
                          GenesisTime)
    IN /\ members = m.members
       /\ isMember = m.isMember
       /\ memberIndex = m.memberIndex
       /\ threshold = (Len(m.members) * 2 + 2) \div 3
       /\ daoGovernor = DAO
       /\ protocolTarget = TARGET
       /\ actionCount = 0
       /\ actions = <<>>
       /\ pendingActionIds = <<>>
       /\ approvals = <<>>
       /\ paused = FALSE
       /\ dispatched = <<>>
       /\ thresholdUpdated = 0

RECURSIVE foundationMemberCountOf(_)
foundationMemberCountOf(ms) ==
    IF ms = <<>> THEN 0
    ELSE (IF Head(ms).isFoundation THEN 1 ELSE 0) + foundationMemberCountOf(Tail(ms))

foundationMemberCount == foundationMemberCountOf(members)
memberCount == Len(members)
externalMemberCount == Len(members) - foundationMemberCount

\* _actions[actionId]: an id never written reads as the zero struct
ActionAt(actionId) == IF actionId \in DOMAIN actions THEN actions[actionId] ELSE NoAction
ApprovedBy(actionId, member) == actionId \in DOMAIN approvals /\ member \in approvals[actionId]
isActionApproved(actionId) == Len(ActionAt(actionId).approvers) >= threshold

AddMemberErr(caller, member) ==
    IF caller # daoGovernor THEN "OnlyDAOCanModifyMembers"
    ELSE IF member = ZERO THEN "ZeroAddress"
    ELSE IF isMember[member] THEN "AlreadyMember"
    ELSE "OK"

AddMember(caller, member, isFoundation) ==
    LET m == AddedMember([members |-> members, isMember |-> isMember,
                          memberIndex |-> memberIndex], member, isFoundation, now)
    IN /\ IF AddMemberErr(caller, member) = "OK"
          THEN /\ members' = m.members
               /\ isMember' = m.isMember
               /\ memberIndex' = m.memberIndex
          ELSE UNCHANGED <<members, isMember, memberIndex>>
       /\ UNCHANGED <<governorVars, envVars, tokenVars, registryVars, timelockVars, daoGovernor,
                      protocolTarget, threshold, actionCount, actions, pendingActionIds,
                      approvals, paused, dispatched, thresholdUpdated>>

RemoveMemberErr_NoFoundationCheck(caller, member) ==
    IF caller # daoGovernor THEN "OnlyDAOCanModifyMembers"
    ELSE IF ~isMember[member] THEN "NotMember"
    ELSE IF Len(members) <= MIN_MEMBERS THEN "NotEnoughMembers"
    ELSE "OK"

RemoveMemberErr(caller, member) ==
    IF caller # daoGovernor THEN "OnlyDAOCanModifyMembers"
    ELSE IF ~isMember[member] THEN "NotMember"
    ELSE IF Len(members) <= MIN_MEMBERS THEN "NotEnoughMembers"
    ELSE IF members[memberIndex[member] + 1].isFoundation /\ foundationMemberCount = 1
         THEN "CannotRemoveLastFoundationMember"
    ELSE "OK"

\* _removeMember, on the member fields; indices are 0-based as in the source
RemovedMember(m, member) ==
    LET index == m.memberIndex[member]
        lastIndex == Len(m.members) - 1
        lastMember == m.members[lastIndex + 1]
        swapped == IF index # lastIndex
                   THEN [members |-> [m.members EXCEPT ![index + 1] = lastMember],
                         memberIndex |-> [m.memberIndex EXCEPT ![lastMember.account] = index]]
                   ELSE [members |-> m.members, memberIndex |-> m.memberIndex]
    IN [members |-> SubSeq(swapped.members, 1, lastIndex),
        isMember |-> [m.isMember EXCEPT ![member] = FALSE],
        memberIndex |-> [swapped.memberIndex EXCEPT ![member] = 0]]

Clamped_Keeps(oldThreshold, length) == oldThreshold

\* the threshold after a removal that leaves `length` members
Clamped(oldThreshold, length) == IF oldThreshold > length THEN length ELSE oldThreshold

RemoveMember(caller, member) ==
    LET m == RemovedMember([members |-> members, isMember |-> isMember,
                            memberIndex |-> memberIndex], member)
    IN /\ IF RemoveMemberErr(caller, member) = "OK"
          THEN /\ members' = m.members
               /\ isMember' = m.isMember
               /\ memberIndex' = m.memberIndex
               /\ threshold' = Clamped(threshold, Len(m.members))
          ELSE UNCHANGED <<members, isMember, memberIndex, threshold>>
       /\ UNCHANGED <<governorVars, envVars, tokenVars, registryVars, timelockVars, daoGovernor,
                      protocolTarget, actionCount, actions, pendingActionIds, approvals,
                      paused, dispatched, thresholdUpdated>>

SetThresholdErr_NoUpperBound(caller, newThreshold) ==
    IF caller # daoGovernor THEN "OnlyDAOCanModifyMembers"
    ELSE IF newThreshold = 0 THEN "InvalidThreshold"
    ELSE "OK"

SetThresholdErr(caller, newThreshold) ==
    IF caller # daoGovernor THEN "OnlyDAOCanModifyMembers"
    ELSE IF newThreshold = 0 \/ newThreshold > Len(members) THEN "InvalidThreshold"
    ELSE "OK"

SetThreshold(caller, newThreshold) ==
    /\ IF SetThresholdErr(caller, newThreshold) = "OK"
       THEN /\ threshold' = newThreshold
            /\ thresholdUpdated' = newThreshold
       ELSE UNCHANGED <<threshold, thresholdUpdated>>
    /\ UNCHANGED <<governorVars, envVars, tokenVars, registryVars, timelockVars, daoGovernor,
                   protocolTarget, actionCount, members, isMember, memberIndex, actions,
                   pendingActionIds, approvals, paused, dispatched>>

\* the state written by proposeEmergencyAction and by the three wrappers
Created(caller, actionType, target, data) ==
    LET actionId == actionCount
        put(f, v) == [i \in DOMAIN f \cup {actionId} |-> IF i = actionId THEN v ELSE f[i]]
    IN /\ actionCount' = actionCount + 1
       /\ actions' = put(actions, [actionType |-> actionType, target |-> target,
                                   data |-> data, createdAt |-> now, executedAt |-> 0,
                                   executed |-> FALSE, approvers |-> <<caller>>])
       /\ approvals' = put(approvals, {caller})
       /\ dispatched' = put(dispatched, 0)
       /\ pendingActionIds' = Append(pendingActionIds, actionId)

OnlyMemberErr(caller) == IF ~isMember[caller] THEN "NotMember" ELSE "OK"

ProposeEmergencyAction(caller, actionType, target, data) ==
    /\ actionCount < MaxActions
    /\ IF OnlyMemberErr(caller) = "OK"
       THEN Created(caller, actionType, target, data)
       ELSE UNCHANGED <<actionCount, actions, approvals, dispatched, pendingActionIds>>
    /\ UNCHANGED <<governorVars, envVars, tokenVars, registryVars, timelockVars, daoGovernor,
                   protocolTarget, threshold, members, isMember, memberIndex, paused,
                   thresholdUpdated>>

\* approveEmergencyAction without the look-up of the caller's earlier approval
ApproveEmergencyActionErr_NoApprovedCheck(caller, actionId) ==
    IF ~isMember[caller] THEN "NotMember"
    ELSE IF ActionAt(actionId).createdAt = 0 THEN "ActionNotFound"
    ELSE IF ActionAt(actionId).executed THEN "ActionAlreadyExecuted"
    ELSE "OK"

ApproveEmergencyActionErr(caller, actionId) ==
    IF ~isMember[caller] THEN "NotMember"
    ELSE IF ActionAt(actionId).createdAt = 0 THEN "ActionNotFound"
    ELSE IF ActionAt(actionId).executed THEN "ActionAlreadyExecuted"
    ELSE IF ApprovedBy(actionId, caller) THEN "AlreadyApproved"
    ELSE "OK"

ApproveEmergencyAction(caller, actionId) ==
    /\ IF ApproveEmergencyActionErr(caller, actionId) = "OK"
       THEN /\ approvals' = [approvals EXCEPT ![actionId] = @ \cup {caller}]
            /\ actions' = [actions EXCEPT ![actionId].approvers = Append(@, caller)]
       ELSE UNCHANGED <<approvals, actions>>
    /\ UNCHANGED <<governorVars, envVars, tokenVars, registryVars, timelockVars, daoGovernor,
                   protocolTarget, threshold, actionCount, members, isMember, memberIndex,
                   pendingActionIds, paused, dispatched, thresholdUpdated>>

\* a removal that pops the last entry without first moving it into the hole
RemovedPending_PopsLast(ids, actionId) ==
    IF \E i \in 1..Len(ids) : ids[i] = actionId THEN SubSeq(ids, 1, Len(ids) - 1) ELSE ids

\* _removePendingAction
RemovedPending(ids, actionId) ==
    LET len == Len(ids)
        hits == {i \in 1..len : ids[i] = actionId}
    IN IF hits = {} THEN ids
       ELSE LET i == CHOOSE k \in hits : \A j \in hits : k <= j
            IN SubSeq([ids EXCEPT ![i] = ids[len]], 1, len - 1)

ExecuteGateErr_NoThreshold(caller, actionId) ==
    IF ~isMember[caller] THEN "NotMember"
    ELSE IF ActionAt(actionId).createdAt = 0 THEN "ActionNotFound"
    ELSE IF ActionAt(actionId).executed THEN "ActionAlreadyExecuted"
    ELSE "OK"

ExecuteGateErr_NoExecutedCheck(caller, actionId) ==
    IF ~isMember[caller] THEN "NotMember"
    ELSE IF ActionAt(actionId).createdAt = 0 THEN "ActionNotFound"
    ELSE IF Len(ActionAt(actionId).approvers) < threshold THEN "ActionNotApproved"
    ELSE "OK"

\* the checks of executeEmergencyAction before the action is marked executed
ExecuteGateErr(caller, actionId) ==
    IF ~isMember[caller] THEN "NotMember"
    ELSE IF ActionAt(actionId).createdAt = 0 THEN "ActionNotFound"
    ELSE IF ActionAt(actionId).executed THEN "ActionAlreadyExecuted"
    ELSE IF Len(ActionAt(actionId).approvers) < threshold THEN "ActionNotApproved"
    ELSE "OK"

\* whether target.call(data) returns success; callOk is the answer of a target that
\* has the function called
CallSucceeds(target, data, callOk) ==
    IF target = TIMELOCK THEN data \in TimelockSelectors /\ callOk ELSE callOk

\* the dispatch of executeEmergencyAction: _pause(), _unpause() or target.call(data)
DispatchErr(action, callOk) ==
    IF action.actionType = "PauseProtocol"
    THEN (IF paused THEN "EnforcedPause" ELSE "OK")
    ELSE IF action.actionType = "UnpauseProtocol"
    THEN (IF ~paused THEN "ExpectedPause" ELSE "OK")
    ELSE IF ~CallSucceeds(action.target, action.data, callOk) THEN "ExecutionFailed"
    ELSE "OK"

ExecuteEmergencyActionErr(caller, actionId, callOk) ==
    IF ExecuteGateErr(caller, actionId) # "OK" THEN ExecuteGateErr(caller, actionId)
    ELSE DispatchErr(ActionAt(actionId), callOk)

ExecuteEmergencyAction(caller, actionId, callOk) ==
    /\ IF ExecuteEmergencyActionErr(caller, actionId, callOk) = "OK"
       THEN /\ actions' = [actions EXCEPT ![actionId].executed = TRUE,
                                          ![actionId].executedAt = now]
            /\ pendingActionIds' = RemovedPending(pendingActionIds, actionId)
            /\ paused' = IF actions[actionId].actionType = "PauseProtocol" THEN TRUE
                         ELSE IF actions[actionId].actionType = "UnpauseProtocol" THEN FALSE
                         ELSE paused
            /\ dispatched' = [dispatched EXCEPT ![actionId] = @ + 1]
       ELSE UNCHANGED <<actions, pendingActionIds, paused, dispatched>>
    /\ UNCHANGED <<governorVars, envVars, tokenVars, registryVars, timelockVars, daoGovernor,
                   protocolTarget, threshold, actionCount, members, isMember, memberIndex,
                   approvals, thresholdUpdated>>

CancelEmergencyActionErr(caller, actionId) ==
    IF ~isMember[caller] THEN "NotMember"
    ELSE IF ActionAt(actionId).createdAt = 0 THEN "ActionNotFound"
    ELSE IF ActionAt(actionId).executed THEN "ActionAlreadyExecuted"
    ELSE "OK"

CancelEmergencyAction(caller, actionId) ==
    /\ IF CancelEmergencyActionErr(caller, actionId) = "OK"
       THEN /\ pendingActionIds' = RemovedPending(pendingActionIds, actionId)
            /\ actions' = [actions EXCEPT ![actionId].executed = TRUE]
       ELSE UNCHANGED <<actions, pendingActionIds>>
    /\ UNCHANGED <<governorVars, envVars, tokenVars, registryVars, timelockVars, daoGovernor,
                   protocolTarget, threshold, actionCount, members, isMember, memberIndex,
                   approvals, paused, dispatched, thresholdUpdated>>

\* the wrappers cancelProposal, pauseProtocol and unpauseProtocol
CancelProposal(caller) ==
    /\ actionCount < MaxActions
    /\ IF OnlyMemberErr(caller) = "OK"
       THEN Created(caller, "CancelProposal", timelockAddress, "cancelProposal")
       ELSE UNCHANGED <<actionCount, actions, approvals, dispatched, pendingActionIds>>
    /\ UNCHANGED <<governorVars, envVars, tokenVars, registryVars, timelockVars, daoGovernor,
                   protocolTarget, threshold, members, isMember, memberIndex, paused,
                   thresholdUpdated>>

PauseProtocol(caller) ==
    /\ actionCount < MaxActions
    /\ IF OnlyMemberErr(caller) = "OK"
       THEN Created(caller, "PauseProtocol", protocolTarget, "pause")
       ELSE UNCHANGED <<actionCount, actions, approvals, dispatched, pendingActionIds>>
    /\ UNCHANGED <<governorVars, envVars, tokenVars, registryVars, timelockVars, daoGovernor,
                   protocolTarget, threshold, members, isMember, memberIndex, paused,
                   thresholdUpdated>>

UnpauseProtocol(caller) ==
    /\ actionCount < MaxActions
    /\ IF OnlyMemberErr(caller) = "OK"
       THEN Created(caller, "UnpauseProtocol", protocolTarget, "unpause")
       ELSE UNCHANGED <<actionCount, actions, approvals, dispatched, pendingActionIds>>
    /\ UNCHANGED <<governorVars, envVars, tokenVars, registryVars, timelockVars, daoGovernor,
                   protocolTarget, threshold, members, isMember, memberIndex, paused,
                   thresholdUpdated>>

OnlyDAOSetErr(caller, newAddress) ==
    IF caller # daoGovernor THEN "OnlyDAOCanModifyMembers"
    ELSE IF newAddress = ZERO THEN "ZeroAddress"
    ELSE "OK"

SetDAOGovernor(caller, newGovernor) ==
    /\ daoGovernor' = IF OnlyDAOSetErr(caller, newGovernor) = "OK" THEN newGovernor
                      ELSE daoGovernor
    /\ UNCHANGED <<governorVars, envVars, tokenVars, registryVars, timelockVars, protocolTarget, threshold,
                   actionCount, members, isMember, memberIndex, actions, pendingActionIds,
                   approvals, paused, dispatched, thresholdUpdated>>

SetProtocolTarget(caller, newTarget) ==
    /\ protocolTarget' = IF OnlyDAOSetErr(caller, newTarget) = "OK" THEN newTarget
                         ELSE protocolTarget
    /\ UNCHANGED <<governorVars, envVars, tokenVars, registryVars, timelockVars, daoGovernor, threshold,
                   actionCount, members, isMember, memberIndex, actions, pendingActionIds,
                   approvals, paused, dispatched, thresholdUpdated>>

(***************************************************************************)
(* Timelock                                                                  *)
(***************************************************************************)
\* (target, value, data) of a transaction; keccak256(abi.encode(target, value, data,
\* eta)) is injective on the tuples explored, so the tuple itself is the hash
Payloads == {"p1", "p2"}
TxHash(payload, eta) == [payload |-> payload, eta |-> eta]

DelayChoices == {MINIMUM_DELAY - 1, MINIMUM_DELAY, MAXIMUM_DELAY, MAXIMUM_DELAY + 1}
\* seconds between consecutive blocks: an entry queued in the first block with the
\* minimum delay is met one second before its eta, at its eta, at the last second of
\* its grace period and one second after it
TimelockSchedule == <<MINIMUM_DELAY - 1, 1, GRACE_PERIOD, 1>>
TimelockDelta(b) == IF b \in DOMAIN TimelockSchedule THEN TimelockSchedule[b] ELSE 1

InitTimelock(delay_) ==
    /\ admin = ADMIN
    /\ governor = ZERO
    /\ securityCouncil = ZERO
    /\ delay = delay_
    /\ queuedTransactions = {}
    /\ canceledTransactions = {}
    /\ transactionEta = <<>>
    /\ executions = <<>>

\* the entries that an execute or cancel call can name: those queued so far and
\* the one a queueTransaction in this block would create
KnownHashes ==
    DOMAIN transactionEta \cup {TxHash(p, now + delay) : p \in Payloads}

ExecutionsOf(txHash) == IF txHash \in DOMAIN executions THEN executions[txHash] ELSE <<>>

QueueTransactionErr(caller, payload) ==
    IF caller # governor THEN "NotGovernor"
    ELSE IF TxHash(payload, now + delay) \in queuedTransactions THEN "TransactionAlreadyQueued"
    ELSE "OK"

QueueTransaction(caller, payload) ==
    LET eta == now + delay
        txHash == TxHash(payload, eta)
        err == QueueTransactionErr(caller, payload)
    IN /\ Cardinality(DOMAIN transactionEta) < MaxQueued
       /\ IF err = "OK"
          THEN /\ queuedTransactions' = queuedTransactions \cup {txHash}
               /\ transactionEta' = [h \in DOMAIN transactionEta \cup {txHash} |->
                                        IF h = txHash THEN eta ELSE transactionEta[h]]
          ELSE UNCHANGED <<queuedTransactions, transactionEta>>
       /\ UNCHANGED <<councilVars, governorVars, envVars, tokenVars, registryVars, admin, governor, securityCouncil,
                      delay, canceledTransactions, executions>>

ExecuteTransactionErr_NoExpiry(caller, txHash) ==
    IF caller # governor THEN "NotGovernor"
    ELSE IF txHash \notin queuedTransactions THEN "TransactionNotQueued"
    ELSE IF txHash \in canceledTransactions THEN "TransactionAlreadyCanceled"
    ELSE IF now < txHash.eta THEN "TransactionNotReady"
    ELSE "OK"

ExecuteTransactionErr_IgnoresCancel(caller, txHash) ==
    IF caller # governor THEN "NotGovernor"
    ELSE IF txHash \notin queuedTransactions THEN "TransactionNotQueued"
    ELSE IF now < txHash.eta THEN "TransactionNotReady"
    ELSE IF now > txHash.eta + GRACE_PERIOD THEN "TransactionExpired"
    ELSE "OK"

\* the checks of executeTransaction before the target is called
ExecuteTransactionErr(caller, txHash) ==
    IF caller # governor THEN "NotGovernor"
    ELSE IF txHash \notin queuedTransactions THEN "TransactionNotQueued"
    ELSE IF txHash \in canceledTransactions THEN "TransactionAlreadyCanceled"
    ELSE IF now < txHash.eta THEN "TransactionNotReady"
    ELSE IF now > txHash.eta + GRACE_PERIOD THEN "TransactionExpired"
    ELSE "OK"

\* the outcome of executeTransaction; callOk: whether target.call{value}(data)
\* returns success
ExecuteTransactionResult(caller, txHash, callOk) ==
    IF ExecuteTransactionErr(caller, txHash) # "OK"
    THEN ExecuteTransactionErr(caller, txHash)
    ELSE IF ~callOk THEN "ExecutionFailed" ELSE "OK"

\* an execution whose failed target call does not undo the removal from the queue
ExecuteTransaction_KeepsRemoval(caller, txHash, callOk) ==
    LET err == ExecuteTransactionResult(caller, txHash, callOk)
    IN /\ queuedTransactions' = IF err \in {"OK", "ExecutionFailed"}
                                THEN queuedTransactions \ {txHash}
                                ELSE queuedTransactions
       /\ executions' = IF err = "OK"
                        THEN [h \in DOMAIN executions \cup {txHash} |->
                                 IF h = txHash THEN Append(ExecutionsOf(h), now)
                                 ELSE executions[h]]
                        ELSE executions
       /\ UNCHANGED <<councilVars, governorVars, envVars, tokenVars, registryVars, admin, governor, securityCouncil,
                      delay, canceledTransactions, transactionEta>>

ExecuteTransaction(caller, txHash, callOk) ==
    LET err == ExecuteTransactionResult(caller, txHash, callOk)
    IN /\ IF err = "OK"
          THEN /\ queuedTransactions' = queuedTransactions \ {txHash}
               /\ executions' = [h \in DOMAIN executions \cup {txHash} |->
                                   IF h = txHash THEN Append(ExecutionsOf(h), now)
                                   ELSE executions[h]]
          ELSE UNCHANGED <<queuedTransactions, executions>>
       /\ UNCHANGED <<councilVars, governorVars, envVars, tokenVars, registryVars, admin, governor, securityCouncil,
                      delay, canceledTransactions, transactionEta>>

CancelTransactionErr(caller, txHash) ==
    IF caller # securityCouncil THEN "NotSecurityCouncil"
    ELSE IF txHash \notin queuedTransactions THEN "TransactionNotQueued"
    ELSE "OK"

CancelTransaction(caller, txHash) ==
    LET err == CancelTransactionErr(caller, txHash)
    IN /\ canceledTransactions' = IF err = "OK" THEN canceledTransactions \cup {txHash}
                                  ELSE canceledTransactions
       /\ UNCHANGED <<councilVars, governorVars, envVars, tokenVars, registryVars, admin, governor, securityCouncil,
                      delay, queuedTransactions, transactionEta, executions>>

CancelTransactionByHash(caller, txHash) ==
    LET err == CancelTransactionErr(caller, txHash)
    IN /\ canceledTransactions' = IF err = "OK" THEN canceledTransactions \cup {txHash}
                                  ELSE canceledTransactions
       /\ UNCHANGED <<councilVars, governorVars, envVars, tokenVars, registryVars, admin, governor, securityCouncil,
                      delay, queuedTransactions, transactionEta, executions>>

AdminSetErr(caller, newAddress) ==
    IF caller # admin THEN "NotAdmin"
    ELSE IF newAddress = ZERO THEN "ZeroAddress"
    ELSE "OK"

SetGovernor(caller, newGovernor) ==
    /\ governor' = IF AdminSetErr(caller, newGovernor) = "OK" THEN newGovernor ELSE governor
    /\ UNCHANGED <<councilVars, governorVars, envVars, tokenVars, registryVars, admin, securityCouncil, delay,
                   queuedTransactions, canceledTransactions, transactionEta, executions>>

SetSecurityCouncil(caller, newCouncil) ==
    /\ securityCouncil' = IF AdminSetErr(caller, newCouncil) = "OK" THEN newCouncil
                          ELSE securityCouncil
    /\ UNCHANGED <<councilVars, governorVars, envVars, tokenVars, registryVars, admin, governor, delay,
                   queuedTransactions, canceledTransactions, transactionEta, executions>>

SetAdmin(caller, newAdmin) ==
    /\ admin' = IF AdminSetErr(caller, newAdmin) = "OK" THEN newAdmin ELSE admin
    /\ UNCHANGED <<councilVars, governorVars, envVars, tokenVars, registryVars, governor, securityCouncil, delay,
                   queuedTransactions, canceledTransactions, transactionEta, executions>>

\* setDelay without the range check
SetDelayErr_NoRange(caller, newDelay) ==
    IF caller # admin THEN "NotAdmin" ELSE "OK"

SetDelayErr(caller, newDelay) ==
    IF caller # admin THEN "NotAdmin"
    ELSE IF newDelay < MINIMUM_DELAY \/ newDelay > MAXIMUM_DELAY THEN "InvalidDelay"
    ELSE "OK"

SetDelay(caller, newDelay) ==
    /\ delay' = IF SetDelayErr(caller, newDelay) = "OK" THEN newDelay ELSE delay
    /\ UNCHANGED <<councilVars, governorVars, envVars, tokenVars, registryVars, admin, governor, securityCouncil,
                   queuedTransactions, canceledTransactions, transactionEta, executions>>

\* isQueued(txHash)
isQueued(txHash) == txHash \in queuedTransactions /\ txHash \notin canceledTransactions

\* isReady(txHash)
isReady(txHash) ==
    IF txHash \notin queuedTransactions \/ txHash \in canceledTransactions THEN FALSE
    ELSE now >= transactionEta[txHash] /\ now <= transactionEta[txHash] + GRACE_PERIOD

InitTimelockSpec ==
    /\ InitGovernor /\ InitEnv /\ InitToken /\ InitRegistry /\ InitCouncil(<<"m2", "m3">>)
    /\ \E delay_ \in {MINIMUM_DELAY, MAXIMUM_DELAY} : InitTimelock(delay_)

NextTimelock ==
    \/ AdvanceTime(TimelockDelta(blockNumber), MaxTimelockBlock)
    \/ \E c \in {GOV, GOV2}, p \in Payloads : QueueTransaction(c, p)
    \/ \E c \in {GOV, GOV2}, h \in KnownHashes, ok \in BOOLEAN : ExecuteTransaction(c, h, ok)
    \/ \E c \in {COUNCIL, GOV}, h \in KnownHashes : CancelTransaction(c, h)
    \/ \E c \in {COUNCIL, GOV}, h \in KnownHashes : CancelTransactionByHash(c, h)
    \/ \E c \in {ADMIN, GOV}, g \in {GOV, GOV2, ZERO} : SetGovernor(c, g)
    \/ \E c \in {ADMIN, GOV}, sc \in {COUNCIL, ZERO} : SetSecurityCouncil(c, sc)
    \/ \E c \in {ADMIN, GOV}, a \in {GOV, ZERO} : SetAdmin(c, a)
    \/ \E c \in {ADMIN, GOV}, d \in DelayChoices : SetDelay(c, d)

SpecTimelock == InitTimelockSpec /\ [][NextTimelock]_vars

\* externalMembers of the constructor: the deployment of the tests, and no external member
ExternalMembersChoices == {<<"m2", "m3">>, <<>>}
ThresholdChoices == 0..4
ActionIds == 0..(MaxActions - 1)

InitCouncilSpec ==
    /\ InitGovernor /\ InitEnv /\ InitToken /\ InitRegistry /\ InitTimelock(MINIMUM_DELAY)
    /\ \E externalMembers \in ExternalMembersChoices : InitCouncil(externalMembers)

\* the callers of proposeEmergencyAction (the wrappers are called by "m1"), and the
\* (member, isFoundation) arguments of addMember
Proposers == {"m1", "m3"}
AddMemberChoices == {<<"m2", FALSE>>, <<"m3", TRUE>>, <<ZERO, FALSE>>}

NextCouncil ==
    \/ \E c \in {DAO, "m1"}, a \in AddMemberChoices : AddMember(c, a[1], a[2])
    \/ \E c \in {DAO, "m1"}, m \in CouncilAddr : RemoveMember(c, m)
    \/ \E c \in {DAO, "m1"}, n \in ThresholdChoices : SetThreshold(c, n)
    \/ \E c \in Proposers : ProposeEmergencyAction(c, "Custom", TARGET, "data")
    \/ \E c \in CouncilAddr, id \in ActionIds : ApproveEmergencyAction(c, id)
    \/ \E c \in CouncilAddr, id \in ActionIds, ok \in BOOLEAN : ExecuteEmergencyAction(c, id, ok)
    \/ \E c \in CouncilAddr, id \in ActionIds : CancelEmergencyAction(c, id)
    \/ \E c \in {"m1"} : CancelProposal(c)
    \/ \E c \in {"m1"} : PauseProtocol(c)
    \/ \E c \in {"m1"} : UnpauseProtocol(c)
    \/ \E c \in {DAO, "m1"}, g \in {DAO, ZERO} : SetDAOGovernor(c, g)
    \/ \E c \in {DAO, "m1"}, t \in {TARGET, ZERO} : SetProtocolTarget(c, t)

SpecCouncil == InitCouncilSpec /\ [][NextCouncil]_vars

(***************************************************************************)
(* The registry with its token                                               *)
(***************************************************************************)
InitRegistrySpec ==
    InitGovernor /\ InitEnv /\ InitTokenFixture /\ InitRegistry /\ InitTimelock(MINIMUM_DELAY)
    /\ InitCouncil(<<"m2", "m3">>)

NextRegistry ==
    \/ AdvanceTime(BlockInterval, MaxBlock)
    \/ \E c \in {OWNER, "a"}, to \in {"a", ZERO}, n \in 1..MaxAmt : Mint(c, to, n)
    \/ \E c \in Registrants, p \in {"", "p"} : RegisterDelegator(c, p)
    \/ \E c \in Registrants, p \in {"", "p"} : UpdateDelegator(c, p)
    \/ \E c \in Registrants : DeactivateDelegator(c)
    \/ \E c \in Holders, d \in Targets, n \in Amounts : Delegate(c, d, n)
    \/ \E c \in Holders, d \in Targets, n \in Amounts : Undelegate(c, d, n)
    \/ \E c \in Holders, f \in Registrants, t \in Targets, n \in Amounts :
          Redelegate(c, f, t, n)
    \/ \E c \in {OWNER, "a"}, cap \in CapChoices : SetDelegationCap(c, cap)
    \/ \E c \in {OWNER, "a"}, p \in PeriodChoices : SetDelegationPeriodRequirement(c, p)
    \/ \E c \in {OWNER, "a"}, p \in ExpiryChoices : SetAutoExpiryPeriod(c, p)

SpecRegistry == InitRegistrySpec /\ [][NextRegistry]_vars

(***************************************************************************)
(* The token on its own: minters, emission ratio, mints, approvals           *)
(***************************************************************************)
RatioChoices == {0, 1, MAX_EMISSION_RATIO \div 2, MAX_EMISSION_RATIO, MAX_EMISSION_RATIO + 1}
MintAmounts == (0..MaxSupply) \cup {UINT_MAX}
AllowanceChoices == {0, 1, UINT_MAX}

InitTokenSpec ==
    InitGovernor /\ InitEnv /\ InitToken /\ InitRegistry /\ InitTimelock(MINIMUM_DELAY)
    /\ InitCouncil(<<"m2", "m3">>)

NextToken ==
    \/ \E c \in {OWNER, "a"}, m \in {OWNER, "a", ZERO}, allowed \in BOOLEAN :
          SetMinter(c, m, allowed)
    \/ \E c \in {OWNER, "a"}, r \in RatioChoices : SetEmissionRatio(c, r)
    \/ \E c \in {OWNER, "a"}, to \in Holders \cup {ZERO}, n \in MintAmounts : Mint(c, to, n)
    \/ \E o \in Holders, v \in AllowanceChoices : Approve(o, v)

SpecToken == InitTokenSpec /\ [][NextToken]_vars

(***************************************************************************)
(* DAOGovernor (ProposalEngine)                                              *)
(***************************************************************************)
VoteTypes == {"For", "Against", "Abstain"}

\* the proposal created by propose in the current block
NewProposal(caller, payload) ==
    [proposer |-> caller,
     payload |-> payload,
     voteStart |-> blockNumber + votingDelay,
     voteEnd |-> blockNumber + votingDelay + votingPeriod,
     forVotes |-> 0, againstVotes |-> 0, abstainVotes |-> 0,
     voters |-> {},
     canceled |-> FALSE, executed |-> FALSE,
     eta |-> 0]

\* the total vTON supply stands for the total delegated supply
totalDelegatedSupplyProxy == totalSupply

QuorumReached(p) ==
    ((p.forVotes + p.againstVotes + p.abstainVotes) * 10000) \div totalDelegatedSupplyProxy
        >= quorum

\* the majority check that counts a tie as a win
MajorityReached_Tie(p) == p.forVotes >= p.againstVotes

MajorityReached(p) == p.forVotes > p.againstVotes

\* the derived state without the look at the canceled flag
state_NoCanceledFlag(id) ==
    LET p == proposals[id]
    IN IF p.executed THEN "Executed"
       ELSE IF blockNumber < p.voteStart THEN "Pending"
       ELSE IF blockNumber <= p.voteEnd THEN "Active"
       ELSE IF ~(QuorumReached(p) /\ MajorityReached(p)) THEN "Defeated"
       ELSE IF p.eta = 0 THEN "Succeeded"
       ELSE IF now > p.eta + GRACE_PERIOD THEN "Expired"
       ELSE "Queued"

state(id) ==
    LET p == proposals[id]
    IN IF p.canceled THEN "Canceled"
       ELSE IF p.executed THEN "Executed"
       ELSE IF blockNumber < p.voteStart THEN "Pending"
       ELSE IF blockNumber <= p.voteEnd THEN "Active"
       ELSE IF ~(QuorumReached(p) /\ MajorityReached(p)) THEN "Defeated"
       ELSE IF p.eta = 0 THEN "Succeeded"
       ELSE IF now > p.eta + GRACE_PERIOD THEN "Expired"
       ELSE "Queued"

\* the burn amount with nothing reaching the burn sink
BurnCredit_None(cost) == 0

\* what the burn sink receives from a propose
BurnCredit(cost) == cost

ProposeErr(caller) ==
    IF tonBalances[caller] < proposalCreationCost THEN "ERC20InsufficientBalance" ELSE "OK"

Propose(caller, payload) ==
    /\ proposalCount < MaxProposals
    /\ IF ProposeErr(caller) = "OK"
       THEN /\ tonBalances' = [tonBalances EXCEPT
                                  ![caller] = @ - proposalCreationCost,
                                  ![DEAD] = @ + BurnCredit(proposalCreationCost)]
            /\ proposalCount' = proposalCount + 1
            /\ proposals' = Append(proposals, NewProposal(caller, payload))
       ELSE UNCHANGED <<tonBalances, proposalCount, proposals>>
    /\ UNCHANGED <<envVars, tokenVars, registryVars, timelockVars, councilVars,
                   proposalGuardian, quorum, proposalCreationCost, votingDelay, votingPeriod>>

\* castVote without the check of the has-voted set
CastVoteErr_NoVotedCheck(caller, id) ==
    IF ~IsActiveDelegator(caller) THEN "NotDelegate"
    ELSE IF state(id) # "Active" THEN "ProposalNotActive"
    ELSE IF getVotingPower(caller) = Reverted THEN "Panic"
    ELSE "OK"

CastVoteErr(caller, id) ==
    IF ~IsActiveDelegator(caller) THEN "NotDelegate"
    ELSE IF state(id) # "Active" THEN "ProposalNotActive"
    ELSE IF caller \in proposals[id].voters THEN "AlreadyVoted"
    ELSE IF getVotingPower(caller) = Reverted THEN "Panic"
    ELSE "OK"

\* the proposal after a vote of the given weight
Tallied(p, caller, support, weight) ==
    [p EXCEPT !.voters = @ \cup {caller},
              !.forVotes = IF support = "For" THEN @ + weight ELSE @,
              !.againstVotes = IF support = "Against" THEN @ + weight ELSE @,
              !.abstainVotes = IF support = "Abstain" THEN @ + weight ELSE @]

CastVote(caller, id, support) ==
    /\ id \in 1..proposalCount
    /\ proposals' = IF CastVoteErr(caller, id) # "OK" THEN proposals
                    ELSE [proposals EXCEPT ![id] =
                             Tallied(@, caller, support, getVotingPower(caller))]
    /\ UNCHANGED <<envVars, tokenVars, registryVars, timelockVars, councilVars,
                   tonBalances, proposalCount, proposalGuardian, quorum,
                   proposalCreationCost, votingDelay, votingPeriod>>

CastVoteWithReason(caller, id, support, reason) == CastVote(caller, id, support)

\* cancel with the guardian allowed in every state that is not final
CancelErr_GuardianAsProposer(caller, id) ==
    IF caller = proposals[id].proposer \/ caller = proposalGuardian
    THEN IF state(id) \in {"Executed", "Canceled", "Expired"} THEN "InvalidProposalState"
         ELSE "OK"
    ELSE "NotAuthorizedToCancel"

CancelErr(caller, id) ==
    IF caller = proposals[id].proposer
    THEN IF state(id) \in {"Executed", "Canceled", "Expired"} THEN "InvalidProposalState"
         ELSE "OK"
    ELSE IF caller = proposalGuardian
    THEN IF state(id) \in {"Pending", "Active", "Succeeded", "Queued"} THEN "OK"
         ELSE "InvalidProposalState"
    ELSE "NotAuthorizedToCancel"

Cancel(caller, id) ==
    /\ id \in 1..proposalCount
    /\ proposals' = IF CancelErr(caller, id) # "OK" THEN proposals
                    ELSE [proposals EXCEPT ![id].canceled = TRUE]
    /\ UNCHANGED <<envVars, tokenVars, registryVars, timelockVars, councilVars,
                   tonBalances, proposalCount, proposalGuardian, quorum,
                   proposalCreationCost, votingDelay, votingPeriod>>

\* queue forwards the proposal's call to Timelock.queueTransaction
QueueErr(id) ==
    IF state(id) # "Succeeded" THEN "InvalidProposalState"
    ELSE QueueTransactionErr(GOV, proposals[id].payload)

Queue(caller, id) ==
    LET eta == now + delay
        txHash == TxHash(proposals[id].payload, eta)
    IN /\ id \in 1..proposalCount
       /\ IF QueueErr(id) = "OK"
          THEN /\ proposals' = [proposals EXCEPT ![id].eta = eta]
               /\ queuedTransactions' = queuedTransactions \cup {txHash}
               /\ transactionEta' = [h \in DOMAIN transactionEta \cup {txHash} |->
                                        IF h = txHash THEN eta ELSE transactionEta[h]]
          ELSE UNCHANGED <<proposals, queuedTransactions, transactionEta>>
       /\ UNCHANGED <<envVars, tokenVars, registryVars, councilVars, admin, governor,
                      securityCouncil, delay, canceledTransactions, executions,
                      tonBalances, proposalCount, proposalGuardian, quorum,
                      proposalCreationCost, votingDelay, votingPeriod>>

\* execute forwards the proposal's call to Timelock.executeTransaction
ExecuteErr(id, callOk) ==
    IF state(id) # "Queued" THEN "InvalidProposalState"
    ELSE IF ExecuteTransactionErr(GOV, TxHash(proposals[id].payload, proposals[id].eta)) # "OK"
    THEN ExecuteTransactionErr(GOV, TxHash(proposals[id].payload, proposals[id].eta))
    ELSE IF ~callOk THEN "ExecutionFailed"
    ELSE "OK"

Execute(caller, id, callOk) ==
    LET txHash == TxHash(proposals[id].payload, proposals[id].eta)
    IN /\ id \in 1..proposalCount
       /\ IF ExecuteErr(id, callOk) = "OK"
          THEN /\ proposals' = [proposals EXCEPT ![id].executed = TRUE]
               /\ queuedTransactions' = queuedTransactions \ {txHash}
               /\ executions' = [h \in DOMAIN executions \cup {txHash} |->
                                   IF h = txHash THEN Append(ExecutionsOf(h), now)
                                   ELSE executions[h]]
          ELSE UNCHANGED <<proposals, queuedTransactions, executions>>
       /\ UNCHANGED <<envVars, tokenVars, registryVars, councilVars, admin, governor,
                      securityCouncil, delay, canceledTransactions, transactionEta,
                      tonBalances, proposalCount, proposalGuardian, quorum,
                      proposalCreationCost, votingDelay, votingPeriod>>

\* the owner-gated setters of quorum, creation cost and guardian: which
\* parameter, and its new value
SetGovernorParameter(caller, name, value) ==
    LET ok == caller = OWNER
    IN /\ quorum' = IF ok /\ name = "quorum" THEN value ELSE quorum
       /\ proposalCreationCost' =
             IF ok /\ name = "proposalCreationCost" THEN value ELSE proposalCreationCost
       /\ votingDelay' = votingDelay
       /\ votingPeriod' = votingPeriod
       /\ proposalGuardian' = IF ok /\ name = "proposalGuardian" THEN value
                              ELSE proposalGuardian
       /\ UNCHANGED <<envVars, tokenVars, registryVars, timelockVars, councilVars,
                      tonBalances, proposalCount, proposals>>

SetQuorum(caller, value) == SetGovernorParameter(caller, "quorum", value)
SetProposalCreationCost(caller, value) ==
    SetGovernorParameter(caller, "proposalCreationCost", value)
SetProposalGuardian(caller, value) == SetGovernorParameter(caller, "proposalGuardian", value)

\* seconds between consecutive blocks: a proposal queued in the fourth block is
\* met at its eta in the fifth and one second after its grace period in the sixth
GovDelta(b) == IF b = 4 THEN MINIMUM_DELAY ELSE IF b = 5 THEN GRACE_PERIOD + 1 ELSE 1

\* the deployment of the governor tests after their common preparation: b and c
\* are registered delegators, the cap is lifted, a has delegated its token to b
\* and b its token to c, the delegation period has passed, the Timelock takes
\* its calls from the governor
InitGovernorSpec ==
    /\ InitGovernor
    /\ now = GenesisTime + DEFAULT_PERIOD
    /\ blockNumber = 1
    /\ balances = [x \in Addr \cup {REGISTRY} |->
                      IF x = REGISTRY THEN 2 * InitialBalance ELSE 0]
    /\ totalSupply = 2 * InitialBalance
    /\ allowance = [x \in Addr |-> IF x \in Holders THEN UINT_MAX ELSE 0]
    /\ minters = {OWNER}
    /\ emissionRatio = MAX_EMISSION_RATIO
    /\ delegationCap = MAX_CAP
    /\ delegationPeriodRequirement = DEFAULT_PERIOD
    /\ autoExpiryPeriod = 0
    /\ delegators = [x \in Addr |->
                        IF x \in Registrants
                        THEN [profile |-> "p", registeredAt |-> GenesisTime, isActive |-> TRUE]
                        ELSE NoDelegator]
    /\ delegations =
          [o \in Addr |-> [d \in Addr |->
              IF <<o, d>> \in {<<"a", "b">>, <<"b", "c">>}
              THEN [delegator |-> d, amount |-> InitialBalance,
                    delegatedAt |-> GenesisTime, expiresAt |-> 0]
              ELSE NoDelegation]]
    /\ totalDelegated = [x \in Addr |-> IF x \in Registrants THEN InitialBalance ELSE 0]
    /\ totalDelegatedBy = [x \in Addr |-> IF x \in Holders THEN InitialBalance ELSE 0]
    /\ delegationTimestamps =
          [d \in Addr |-> [o \in Addr |->
              IF <<o, d>> \in {<<"a", "b">>, <<"b", "c">>} THEN GenesisTime ELSE 0]]
    /\ delegatorsToOwners =
          [d \in Addr |-> IF d = "b" THEN <<"a">> ELSE IF d = "c" THEN <<"b">> ELSE <<>>]
    /\ admin = ADMIN
    /\ governor = GOV
    /\ securityCouncil = ZERO
    /\ delay = MINIMUM_DELAY
    /\ queuedTransactions = {}
    /\ canceledTransactions = {}
    /\ transactionEta = <<>>
    /\ executions = <<>>
    /\ InitCouncil(<<"m2", "m3">>)

QuorumChoices == {DEFAULT_QUORUM, 10000}

NextGovernor ==
    \/ AdvanceTime(GovDelta(blockNumber), MaxGovBlock)
    \/ \E c \in Holders : Propose(c, "p1")
    \/ \E c \in Holders, id \in 1..MaxProposals, support \in {"For", "Against"} :
          CastVote(c, id, support)
    \/ \E support \in VoteTypes : CastVoteWithReason("c", 1, support, "reason")
    \/ \E c \in {"a", "b", GUARDIAN}, id \in 1..MaxProposals : Cancel(c, id)
    \/ \E id \in 1..MaxProposals : Queue("b", id)
    \/ \E id \in 1..MaxProposals, callOk \in BOOLEAN : Execute("b", id, callOk)
    \/ \E c \in {OWNER, "a"}, q \in QuorumChoices : SetQuorum(c, q)
    \/ \E c \in {OWNER, "a"}, n \in 1..2 : SetProposalCreationCost(c, n)
    \/ \E c \in {OWNER, "a"}, g \in {GUARDIAN, ZERO} : SetProposalGuardian(c, g)

SpecGovernor == InitGovernorSpec /\ [][NextGovernor]_vars

(***************************************************************************)
(* Delegation cap                                                            *)
(***************************************************************************)
CapHolds(d) == getTotalDelegated(d) <= MaxDelegation

\* C1 as stated: for every delegate D, in every reachable state,
\* getTotalDelegated(D) <= totalSupply * delegationCap / 10000.
C1_CapAtAllTimes == \A d \in Addr : CapHolds(d)

\* C1 amended: a step that raises getTotalDelegated(D) (a successful delegate or
\* redelegate into D) leaves it within totalSupply * delegationCap / 10000, and a
\* delegate within the bound stays within it through every step that does not
\* lower delegationCap.
C1_CapAtDelegation ==
    [][\A d \in Addr :
         /\ getTotalDelegated(d)' > getTotalDelegated(d) => CapHolds(d)'
         /\ (CapHolds(d) /\ delegationCap' >= delegationCap) => CapHolds(d)']_vars

\* a delegator holds a delegation that fills part of a non-trivial cap
C1_Witness ==
    \E d \in Addr : getTotalDelegated(d) > 0 /\ CapHolds(d) /\ totalSupply > InitialBalance * 2

(***************************************************************************)
(* Token conservation                                                        *)
(***************************************************************************)
\* the sum of the delegation amounts recorded for an owner (over Addr)
DelegatedBy(o) ==
    delegations[o]["a"].amount + delegations[o]["b"].amount + delegations[o]["c"].amount

\* the sum of the delegation amounts recorded for a delegator (over Addr)
DelegatedTo(d) ==
    delegations["a"][d].amount + delegations["b"][d].amount + delegations["c"][d].amount

Holdings(o) == balances[o] + DelegatedBy(o)

\* C2: across every delegate, undelegate and redelegate call of an owner O
\* (every step that is not a mint), balanceOf(O) plus the sum of O's recorded
\* delegation amounts is unchanged, and tokens move only between O and the
\* registry escrow.
C2_Conservation ==
    [][totalSupply' = totalSupply =>
         \A o \in Addr :
           /\ Holdings(o)' = Holdings(o)
           /\ balances'[o] # balances[o] =>
                 /\ balances'[o] - balances[o] = balances[REGISTRY] - balances'[REGISTRY]
                 /\ \A x \in Addr \ {o} : balances'[x] = balances[x]]_vars

\* an owner has delegated to two delegators and the registry holds the tokens
C2_Witness ==
    \E o \in Holders :
        /\ balances[REGISTRY] >= 2
        /\ \E d1, d2 \in Addr : d1 # d2 /\ delegations[o][d1].amount > 0
                                          /\ delegations[o][d2].amount > 0

(***************************************************************************)
(* Voting power                                                              *)
(***************************************************************************)
\* whether the delegation record (o, d) is mature and not expired at time t
Eligible(o, d, t) ==
    LET rec == delegations[o][d]
    IN /\ rec.amount > 0
       /\ rec.delegatedAt <= t - delegationPeriodRequirement
       /\ (rec.expiresAt = 0 \/ rec.expiresAt > t)

\* the sum, over the owners with an eligible delegation to d, of their amounts
EligibleSum(d, t) ==
    (IF Eligible("a", d, t) THEN delegations["a"][d].amount ELSE 0)
  + (IF Eligible("b", d, t) THEN delegations["b"][d].amount ELSE 0)
  + (IF Eligible("c", d, t) THEN delegations["c"][d].amount ELSE 0)

\* C3: getVotingPower(D) equals the sum, over every owner with a nonzero
\* delegation to D counted once, of the amounts of the delegations that are mature
\* and not expired.
C3_VotingPowerIsSum ==
    \A d \in Addr : getVotingPower(d) # Reverted => getVotingPower(d) = EligibleSum(d, now)

\* the number of entries of the owner list of d that name o
RECURSIVE Occurrences(_, _)
Occurrences(owners, o) ==
    IF owners = <<>> THEN 0
    ELSE (IF Head(owners) = o THEN 1 ELSE 0) + Occurrences(Tail(owners), o)

\* what the delegation (o, d) adds to getVotingPower(d) at time t
Contribution(o, d, t) == Occurrences(delegatorsToOwners[d], o) * Counted(d, o, t)

\* C4: a delegation (O, D) last made, topped up or redelegated in at time T adds
\* nothing to getVotingPower(D) before T + delegationPeriodRequirement and adds its
\* full amount from then on while it is not expired.
C4_Maturity ==
    \A o \in Addr, d \in Addr :
        LET rec == delegations[o][d]
        IN (rec.amount > 0 /\ getVotingPower(d) # Reverted) =>
             /\ now < rec.delegatedAt + delegationPeriodRequirement
                  => Contribution(o, d, now) = 0
             /\ (/\ now >= rec.delegatedAt + delegationPeriodRequirement
                 /\ (rec.expiresAt = 0 \/ rec.expiresAt > now))
                  => Contribution(o, d, now) = rec.amount

(***************************************************************************)
(* Timelock: the grace window and cancellation                              *)
(***************************************************************************)
Live(h) == h \in queuedTransactions /\ h \notin canceledTransactions

\* what the governor's executeTransaction answers for every live entry
C5_Answer ==
    \A h \in DOMAIN transactionEta :
        Live(h) =>
            LET E == transactionEta[h]
                err == ExecuteTransactionErr(governor, h)
            IN /\ now < E => err = "TransactionNotReady"
               /\ (E <= now /\ now <= E + GRACE_PERIOD) => err = "OK"
               /\ now > E + GRACE_PERIOD => err = "TransactionExpired"

\* a step dispatches an entry's call only inside the window, and inside the window
\* a governor's call whose target does not revert is dispatched
C5_Dispatch ==
    \A h \in DOMAIN transactionEta' :
        LET E == h.eta
        IN /\ ExecutionsOf(h)' # ExecutionsOf(h) =>
                /\ Live(h) /\ E = transactionEta[h]
                /\ E <= now /\ now <= E + GRACE_PERIOD
                /\ ExecutionsOf(h)' = Append(ExecutionsOf(h), now)
                /\ h \notin queuedTransactions'
           /\ (h \in DOMAIN transactionEta /\ Live(h) /\ E <= now /\ now <= E + GRACE_PERIOD)
                => (ExecuteTransaction(governor, h, TRUE) =>
                        ExecutionsOf(h)' = Append(ExecutionsOf(h), now))

\* C5: for a queued, not canceled entry with eta E, executeTransaction by the governor
\* fails with TransactionNotReady at any time t < E, succeeds at any time
\* E <= t <= E + 14 days when the target call does not revert, and fails with
\* TransactionExpired at any time t > E + 14 days
C5_GraceWindow == []C5_Answer /\ [][C5_Dispatch]_vars

\* an entry was executed in the last second of its grace period and another live entry
\* has expired
C5_Witness ==
    /\ \E h \in DOMAIN executions : \E i \in DOMAIN executions[h] :
            executions[h][i] = h.eta + GRACE_PERIOD
    /\ \E g \in DOMAIN transactionEta : Live(g) /\ now > g.eta + GRACE_PERIOD

\* C6: once cancelTransaction or cancelTransactionByHash has succeeded for an entry, the
\* entry stays canceled and no executeTransaction for the same tuple succeeds, by any
\* caller, whatever happens in between
C6_CancelPermanent ==
    [][\A h \in canceledTransactions :
          /\ h \in canceledTransactions'
          /\ ExecutionsOf(h)' = ExecutionsOf(h)
          /\ \A c \in {ADMIN, GOV, GOV2, COUNCIL} : ExecuteTransactionErr(c, h) # "OK"]_vars

\* a canceled entry is inside its execution window after the governor was replaced and
\* the delay was changed
C6_Witness ==
    \E h \in canceledTransactions :
        /\ h.eta <= now /\ now <= h.eta + GRACE_PERIOD
        /\ governor = GOV2
        /\ delay = MAXIMUM_DELAY
        /\ ExecutionsOf(h) = <<>>

(***************************************************************************)
(* SecurityCouncil: the approval gate, single use and the threshold          *)
(***************************************************************************)
Approvers(id) == Len(actions[id].approvers)
Open(id) == id \in DOMAIN actions /\ ~actions[id].executed

\* what executeEmergencyAction answers a member for an open action with fewer
\* approvers than the threshold
C7_Refused ==
    \A id \in DOMAIN actions :
        (Open(id) /\ Approvers(id) < threshold) =>
            \A c \in CouncilAddr, ok \in BOOLEAN :
                isMember[c] => ExecuteEmergencyActionErr(c, id, ok) = "ActionNotApproved"

C7_Step ==
    \A id \in DOMAIN actions :
        /\ dispatched'[id] > dispatched[id] => Approvers(id) >= threshold
        /\ (Open(id) /\ Approvers(id) < threshold) =>
              \A c \in CouncilAddr, ok \in BOOLEAN :
                  ExecuteEmergencyAction(c, id, ok) => UNCHANGED vars

\* C7: executeEmergencyAction by a member succeeds only if the action's approver count
\* is at least the threshold in force at the call; with fewer approvers it fails with
\* ActionNotApproved and changes nothing
C7_Gate == []C7_Refused /\ [][C7_Step]_vars

\* with three members and threshold 2, an action with two approvers has been executed
\* while another one with a single approver is still open
C7_Witness ==
    /\ Len(members) = 3 /\ threshold = 2
    /\ \E id \in DOMAIN actions :
          /\ dispatched[id] = 1 /\ Approvers(id) = 2 /\ actions[id].actionType = "Custom"
    /\ \E id \in DOMAIN actions : Open(id) /\ Approvers(id) = 1

\* what the three functions answer a member for a consumed action
C8_Refused ==
    \A id \in DOMAIN actions :
        /\ dispatched[id] <= 1
        /\ actions[id].executed =>
              \A c \in CouncilAddr : isMember[c] =>
                  /\ ApproveEmergencyActionErr(c, id) = "ActionAlreadyExecuted"
                  /\ \A ok \in BOOLEAN :
                        ExecuteEmergencyActionErr(c, id, ok) = "ActionAlreadyExecuted"
                  /\ CancelEmergencyActionErr(c, id) = "ActionAlreadyExecuted"

C8_Step ==
    \A id \in DOMAIN actions :
        actions[id].executed =>
            actions'[id] = actions[id] /\ dispatched'[id] = dispatched[id]

\* C8: after executeEmergencyAction or cancelEmergencyAction succeeded for an action id,
\* every approveEmergencyAction, executeEmergencyAction and cancelEmergencyAction by a
\* member on that id fails with ActionAlreadyExecuted, the action is not changed again,
\* and its payload is dispatched at most once
C8_ConsumedOnce == []C8_Refused /\ [][C8_Step]_vars

\* one action was executed with all members having approved, another one was canceled
C8_Witness ==
    \E i, j \in DOMAIN actions :
        /\ actions[i].executed /\ dispatched[i] = 1 /\ Approvers(i) >= threshold
        /\ actions[j].executed /\ dispatched[j] = 0
        /\ pendingActionIds = <<>>

\* setThreshold by the DAO with 0 or with a value above the member count
C9_Rejects ==
    \A n \in ThresholdChoices :
        (n = 0 \/ n > memberCount) =>
            /\ SetThresholdErr(daoGovernor, n) = "InvalidThreshold"
            /\ SetThreshold(daoGovernor, n) => threshold' = threshold

\* C9: in every reachable state 1 <= threshold <= memberCount, and setThreshold with 0
\* or with a value above memberCount fails with InvalidThreshold and leaves the threshold
\* unchanged
C9_ThresholdBounds ==
    /\ [](1 <= threshold /\ threshold <= memberCount)
    /\ [][C9_Rejects]_vars

\* setThreshold has raised the threshold to the member count of a three-member council
C9_Witness ==
    /\ threshold = memberCount
    /\ memberCount = 3
    /\ thresholdUpdated = 3

\* C10: when removeMember leaves threshold above the new member count the threshold
\* becomes the new member count, otherwise it is unchanged; an open action passes the
\* approval check of executeEmergencyAction for every member as soon as its approver
\* count is at least the threshold now in force
C10_Clamp ==
    /\ [](\A id \in DOMAIN actions :
             (Open(id) /\ Approvers(id) >= threshold) =>
                 /\ isActionApproved(id)
                 /\ \A c \in CouncilAddr : isMember[c] => ExecuteGateErr(c, id) = "OK")
    /\ [][memberCount' < memberCount =>
             /\ threshold > memberCount' => threshold' = memberCount'
             /\ threshold <= memberCount' => threshold' = threshold]_vars

\* the threshold was set to 3, a removal brought it to 2, and an open action has
\* exactly two approvers
C10_Witness ==
    /\ thresholdUpdated = 3 /\ threshold = 2 /\ memberCount = 2
    /\ \E id \in DOMAIN actions : Open(id) /\ Approvers(id) = 2

(***************************************************************************)
(* SecurityCouncil: the size of the council                                  *)
(***************************************************************************)
\* C11: memberCount >= MIN_MEMBERS in every reachable state, and removeMember by the
\* DAO of a member of a council with at most MIN_MEMBERS members fails with
\* NotEnoughMembers
C11_SizeFloor ==
    /\ memberCount >= MIN_MEMBERS
    /\ \A a \in CouncilAddr :
          (isMember[a] /\ memberCount <= MIN_MEMBERS) =>
              RemoveMemberErr(daoGovernor, a) = "NotEnoughMembers"

\* the member whose removal would take the last foundation entry of the list
LastFoundation(a) ==
    /\ isMember[a]
    /\ members[memberIndex[a] + 1].isFoundation
    /\ foundationMemberCount = 1

\* C12: foundationMemberCount >= 1 in every reachable state, and removeMember by the DAO
\* of the only remaining foundation member of a council above the minimum size fails
\* with CannotRemoveLastFoundationMember
C12_FoundationSeat ==
    /\ foundationMemberCount >= 1
    /\ \A a \in CouncilAddr :
          (LastFoundation(a) /\ memberCount > MIN_MEMBERS) =>
              RemoveMemberErr(daoGovernor, a) = "CannotRemoveLastFoundationMember"

\* another member was removed by swap-and-pop and added again, and the foundation member
\* of the constructor is the last foundation member of a council of three
C12_Witness ==
    /\ memberCount = 3
    /\ LastFoundation("m1")
    /\ members[2].account = "m3"
    /\ members[3].account = "m2"

(***************************************************************************)
(* Self-delegation and the cap as seen by callers                            *)
(***************************************************************************)
\* C17: a registered, active delegator D that calls delegate(D, amount) on
\* itself is answered as any other owner would be: when the amount fits under
\* the cap and the token transfer would go through, the call succeeds.
C17_SelfDelegation ==
    \A d \in Holders \cap Registrants, n \in 1..MaxAmt :
        (/\ IsActiveDelegator(d)
         /\ totalDelegated[d] + n <= MaxDelegation
         /\ TransferFromErr(d, n) = "OK") =>
            DelegateErr(d, d, n) = "OK"

\* the checks of delegate that precede the cap check pass
DelegateReachesCap(c, d, n) ==
    d # ZERO /\ n # 0 /\ d # c /\ IsActiveDelegator(d)

\* the checks of redelegate that precede the cap check pass
RedelegateReachesCap(c, f, t, n) ==
    /\ f # ZERO /\ t # ZERO /\ n # 0 /\ t # c
    /\ IsActiveDelegator(t)
    /\ delegations[c][f].amount >= n

\* the delegator is active and n more tokens would lift it above the cap
OverCap(t, n) == IsActiveDelegator(t) /\ totalDelegated[t] + n > MaxDelegation

C18_Answer ==
    \A t \in Registrants, n \in 1..MaxAmt :
        OverCap(t, n) =>
            \A c \in Holders :
                /\ DelegateReachesCap(c, t, n) =>
                       DelegateErr(c, t, n) = "DelegationCapExceeded"
                /\ \A f \in Registrants :
                       RedelegateReachesCap(c, f, t, n) =>
                           RedelegateErr(c, f, t, n) = "DelegationCapExceeded"

C18_Step ==
    \/ UNCHANGED vars
    \/ \A t \in Registrants, n \in 1..MaxAmt :
          OverCap(t, n) =>
              \A c \in Holders :
                  /\ DelegateReachesCap(c, t, n) => ~Delegate(c, t, n)
                  /\ \A f \in Registrants :
                         RedelegateReachesCap(c, f, t, n) => ~Redelegate(c, f, t, n)

C19_AnyAmountSucceeds ==
    \A c \in Holders, d \in Registrants, n \in 1..MaxAmt :
        (/\ d # c
         /\ IsActiveDelegator(d)
         /\ n <= balances[c]
         /\ allowance[c] = UINT_MAX) =>
            DelegateErr(c, d, n) = "OK"

(***************************************************************************)
(* vTON mint                                                                 *)
(***************************************************************************)
\* q is amount * emissionRatio / MAX_EMISSION_RATIO rounded down
IsFloor(q, amount) ==
    /\ q * MAX_EMISSION_RATIO <= amount * emissionRatio
    /\ amount * emissionRatio < (q + 1) * MAX_EMISSION_RATIO

C20_Answer ==
    /\ emissionRatio <= MAX_EMISSION_RATIO
    /\ \A c \in {OWNER, "a"}, to \in Holders \cup {ZERO}, n \in MintAmounts :
          /\ c \notin minters => MintErr(c, to, n) = "NotMinter"
          /\ (c \in minters /\ to = ZERO) => MintErr(c, to, n) = "ZeroAddress"
          /\ (c \in minters /\ to # ZERO /\ ProductFits(n)) =>
                 MintErr(c, to, n) = "OK" /\ AdjustedAmount(n) <= n

C20_Step ==
    \A c \in {OWNER, "a"}, to \in Holders \cup {ZERO}, n \in MintAmounts :
        Mint(c, to, n) =>
            IF c \in minters /\ to # ZERO /\ ProductFits(n)
            THEN /\ IsFloor(balances'[to] - balances[to], n)
                 /\ IsFloor(totalSupply' - totalSupply, n)
                 /\ \A x \in Addr \cup {REGISTRY} : x # to => balances'[x] = balances[x]
                 /\ UNCHANGED <<allowance, minters, emissionRatio>>
            ELSE UNCHANGED vars

\* C20: emissionRatio never exceeds MAX_EMISSION_RATIO; mint by a
\* non-minter is answered NotMinter and mint to the zero address ZeroAddress,
\* and neither changes anything; a mint by a minter to a non-zero address
\* whose product amount * emissionRatio fits the word raises balanceOf(to)
\* and totalSupply by exactly amount * emissionRatio / MAX_EMISSION_RATIO
\* rounded down, which is at most amount, and changes nothing else (so
\* nothing at all when that quotient is 0).
C20_MintScaled == []C20_Answer /\ [][C20_Step]_vars

\* the ratio is one half, a minter is set and a holds exactly one token while
\* the supply is one: mint(a, 3) here is accepted and truncates to 1, and
\* mint(a, 1) is accepted and adds nothing
C20_Witness ==
    /\ emissionRatio = MAX_EMISSION_RATIO \div 2
    /\ OWNER \in minters
    /\ balances["a"] = 1
    /\ totalSupply = 1
    /\ MintErr(OWNER, "a", 3) = "OK" /\ AdjustedAmount(3) = 1
    /\ MintErr(OWNER, "a", 1) = "OK" /\ AdjustedAmount(1) = 0

(***************************************************************************)
(* DAOGovernor: cancellation, voting, creation, derived state                *)
(***************************************************************************)
Cancelers == {"a", "b", GUARDIAN}

\* the caller may cancel the proposal as its proposer or as the guardian
MayCancel(c, id) ==
    \/ c = proposals[id].proposer /\ state(id) \notin {"Executed", "Canceled", "Expired"}
    \/ c = proposalGuardian /\ state(id) \in {"Pending", "Active", "Succeeded", "Queued"}

C13_Answer ==
    \A id \in 1..proposalCount, c \in Cancelers :
        /\ CancelErr(c, id) = "OK" <=> MayCancel(c, id)
        /\ (/\ c = proposalGuardian
            /\ c # proposals[id].proposer
            /\ state(id) \in {"Defeated", "Expired"}) =>
               CancelErr(c, id) = "InvalidProposalState"
        /\ (c # proposals[id].proposer /\ c # proposalGuardian) =>
               CancelErr(c, id) = "NotAuthorizedToCancel"

C13_Step ==
    \A id \in 1..proposalCount, c \in Cancelers :
        Cancel(c, id) =>
            IF MayCancel(c, id)
            THEN /\ state(id)' = "Canceled"
                 /\ \A other \in 1..proposalCount :
                       other # id => proposals'[other] = proposals[other]
            ELSE UNCHANGED vars

\* C13: cancel(id) succeeds exactly for the proposer while the proposal is
\* not Executed, Canceled or Expired (so also when it is Defeated) and for the
\* proposal guardian while it is Pending, Active, Succeeded or Queued, and
\* then leaves the proposal Canceled; the guardian on a Defeated or Expired
\* proposal is answered InvalidProposalState, a caller that is neither is
\* answered NotAuthorizedToCancel, and a refused call changes nothing.
C13_CancelAuthority == []C13_Answer /\ [][C13_Step]_vars

\* a guardian is set, one proposal is Defeated (its proposer may still cancel
\* it, the guardian may not) and another one has been canceled
C13_Witness ==
    \E id \in 1..proposalCount, done \in 1..proposalCount :
        /\ proposalGuardian = GUARDIAN
        /\ state(id) = "Defeated"
        /\ CancelErr(proposals[id].proposer, id) = "OK"
        /\ CancelErr(GUARDIAN, id) = "InvalidProposalState"
        /\ CancelErr("b", id) = "NotAuthorizedToCancel"
        /\ state(done) = "Canceled"

Tally(p) == p.forVotes + p.againstVotes + p.abstainVotes

C14_Answer ==
    \A id \in 1..proposalCount, v \in Addr :
        v \in proposals[id].voters =>
            /\ CastVoteErr(v, id) # "OK"
            /\ (IsActiveDelegator(v) /\ state(id) = "Active") =>
                   CastVoteErr(v, id) = "AlreadyVoted"

C14_Step ==
    /\ \A id \in 1..proposalCount, v \in Addr, support \in VoteTypes :
          (v \in proposals[id].voters /\ CastVote(v, id, support)) => UNCHANGED vars
    /\ \A id \in 1..proposalCount :
          (\/ proposals'[id].forVotes # proposals[id].forVotes
           \/ proposals'[id].againstVotes # proposals[id].againstVotes
           \/ proposals'[id].abstainVotes # proposals[id].abstainVotes) =>
              \E v \in Addr :
                  /\ v \notin proposals[id].voters
                  /\ proposals'[id].voters = proposals[id].voters \cup {v}
                  /\ Tally(proposals'[id]) = Tally(proposals[id]) + getVotingPower(v)

\* C14: a voter that is in a proposal's has-voted set cannot vote on it
\* again: castVote and castVoteWithReason fail (with AlreadyVoted while the
\* voter is an active delegator and the proposal is Active) and change
\* nothing, and the tallies of a proposal only change by the weight of a
\* voter that had not voted on it before.
C14_OneVote == []C14_Answer /\ [][C14_Step]_vars

\* an Active proposal carries the vote of an active delegator whose second
\* vote is the AlreadyVoted case
C14_Witness ==
    \E id \in 1..proposalCount, v \in Addr :
        /\ v \in proposals[id].voters
        /\ Tally(proposals[id]) >= 1
        /\ state(id) = "Active"
        /\ CastVoteErr(v, id) = "AlreadyVoted"

\* C15: a step that creates a proposal takes exactly proposalCreationCost
\* TON from the proposer, adds exactly that amount to the burn sink, touches
\* no other TON balance, and gives the proposal the id that follows the last
\* one.
C15_BurnToPropose ==
    [][proposalCount' # proposalCount =>
          LET id == proposalCount + 1
              c == proposals'[id].proposer
          IN /\ proposalCount' = id
             /\ DOMAIN proposals' = 1..id
             /\ \A old \in 1..proposalCount : proposals'[old] = proposals[old]
             /\ tonBalances'[c] = tonBalances[c] - proposalCreationCost
             /\ tonBalances'[DEAD] = tonBalances[DEAD] + proposalCreationCost
             /\ \A x \in Holders : x # c => tonBalances'[x] = tonBalances[x]]_vars

\* two proposals have been created at a cost of one TON each: the proposer's
\* two TON are at the burn sink and the ids are 1 and 2
C15_Witness ==
    /\ proposalCount = 2
    /\ DOMAIN proposals = 1..2
    /\ proposals[2].proposer = "a"
    /\ tonBalances["a"] = InitialTon - 2
    /\ tonBalances[DEAD] = 2

\* the outcome of the vote as the quorum and majority rules give it
Passed(p) ==
    /\ (Tally(p) * 10000) \div totalSupply >= quorum
    /\ p.forVotes > p.againstVotes

\* C16: a proposal that is not canceled is Pending before its vote-start
\* block and Active from there to its vote-end block; after vote-end, while
\* it has not been queued, it is Succeeded exactly when
\* (for + against + abstain) * 10000 / total delegated supply >= quorum and
\* for > against, and Defeated otherwise, so Defeated when nobody voted.
C16_DerivedState ==
    \A id \in 1..proposalCount :
        LET p == proposals[id]
        IN ~p.canceled =>
              /\ blockNumber < p.voteStart => state(id) = "Pending"
              /\ (p.voteStart <= blockNumber /\ blockNumber <= p.voteEnd) =>
                     state(id) = "Active"
              /\ (blockNumber > p.voteEnd /\ p.eta = 0) =>
                     /\ state(id) = "Succeeded" <=> Passed(p)
                     /\ state(id) = "Defeated" <=> ~Passed(p)
              /\ (blockNumber > p.voteEnd /\ Tally(p) = 0) => state(id) = "Defeated"

\* after vote-end one proposal stands at a tie that meets the quorum and is
\* Defeated, while another has passed and is Succeeded
C16_Witness ==
    \E tied \in 1..proposalCount, won \in 1..proposalCount :
        /\ blockNumber > proposals[tied].voteEnd
        /\ proposals[tied].forVotes = proposals[tied].againstVotes
        /\ proposals[tied].forVotes >= 1
        /\ (Tally(proposals[tied]) * 10000) \div totalSupply >= quorum
        /\ state(tied) = "Defeated"
        /\ state(won) = "Succeeded"

(***************************************************************************)
(* DelegateRegistry: registration lifecycle, deactivation, undelegate        *)
(***************************************************************************)
Registered(d) == delegators[d].registeredAt # 0

C21_Answer ==
    \A d \in Registrants :
        Registered(d) =>
            /\ RegisterDelegatorErr(d, "p") = "AlreadyRegisteredDelegator"
            /\ RegisterDelegatorErr(d, "") # "OK"

C21_Step ==
    \A d \in Addr :
        /\ Registered(d) => delegators'[d].registeredAt = delegators[d].registeredAt
        /\ (Registered(d) /\ ~delegators[d].isActive) => ~delegators'[d].isActive
        /\ (~delegators[d].isActive /\ delegators'[d].isActive) => ~Registered(d)

\* C21: a registered address, active or deactivated, cannot register again
\* (AlreadyRegisteredDelegator for a non-empty profile), no step removes or
\* rewrites a registration, no step makes a deactivated delegator active,
\* and an address only becomes active by registering for the first time.
C21_OneWay == []C21_Answer /\ [][C21_Step]_vars

\* a delegator has registered and deactivated, and registering again is
\* refused
C21_Witness ==
    \E d \in Registrants :
        /\ Registered(d)
        /\ ~delegators[d].isActive
        /\ RegisterDelegatorErr(d, "p") = "AlreadyRegisteredDelegator"

Deactivated(d) == Registered(d) /\ ~delegators[d].isActive

C22_Answer ==
    \A d \in Registrants :
        Deactivated(d) =>
            \A c \in Holders, n \in Amounts :
                /\ DelegateErr(c, d, n) # "OK"
                /\ (n # 0 /\ c # d) => DelegateErr(c, d, n) = "DelegatorNotActive"
                /\ \A f \in Registrants :
                      /\ RedelegateErr(c, f, d, n) # "OK"
                      /\ (n # 0 /\ c # d) =>
                             RedelegateErr(c, f, d, n) = "DelegatorNotActive"
                /\ (n # 0 /\ n <= delegations[c][d].amount) =>
                       UndelegateErr(c, d, n) = "OK"

C22_Step ==
    \A d \in Registrants :
        /\ DeactivateDelegator(d) =>
               UNCHANGED <<delegations, totalDelegated, totalDelegatedBy,
                           delegationTimestamps, delegatorsToOwners, balances>>
        /\ (Deactivated(d) /\ totalDelegated'[d] # totalDelegated[d]) =>
               \E o \in Holders, n \in Amounts :
                   Undelegate(o, d, n) \/ \E t \in Targets : Redelegate(o, d, t, n)

\* C22: while a delegator is deactivated every delegate to it and every
\* redelegate towards it fails (with DelegatorNotActive once the address,
\* amount and self checks have passed); deactivating changes no delegation
\* record, aggregate, timestamp or owner list, the delegations to it can still
\* be withdrawn, and its total only changes when an owner undelegates or
\* redelegates away from it.
C22_Deactivated == []C22_Answer /\ [][C22_Step]_vars

\* a deactivated delegator still holds a delegation that its owner can
\* withdraw, and a new delegation to it is refused
C22_Witness ==
    \E d \in Registrants, o \in Holders :
        /\ Deactivated(d)
        /\ o # d
        /\ delegations[o][d].amount >= 1
        /\ totalDelegated[d] >= 1
        /\ DelegateErr(o, d, 1) = "DelegatorNotActive"
        /\ UndelegateErr(o, d, 1) = "OK"

C23_Answer ==
    \A c \in Holders, d \in Registrants, n \in 1..MaxAmt :
        /\ n > delegations[c][d].amount => UndelegateErr(c, d, n) = "InsufficientDelegation"
        /\ n <= delegations[c][d].amount => UndelegateErr(c, d, n) = "OK"

\* the registry pays tokens out in undelegate only
Paid == balances[REGISTRY] - balances'[REGISTRY]

C23_Step ==
    \/ UNCHANGED vars
    \/ /\ \A c \in Holders, d \in Registrants, n \in 1..MaxAmt :
             n > delegations[c][d].amount => ~Undelegate(c, d, n)
       /\ Paid > 0 =>
             \E c \in Holders, d \in Registrants :
                 /\ Paid <= delegations[c][d].amount
                 /\ Undelegate(c, d, Paid)
                 /\ balances'[c] = balances[c] + Paid
                 /\ delegations'[c][d].amount = delegations[c][d].amount - Paid
                 /\ totalDelegated'[d] = totalDelegated[d] - Paid
                 /\ totalDelegatedBy'[c] = totalDelegatedBy[c] - Paid

\* C23: undelegate of more than the caller's recorded delegation is answered
\* InsufficientDelegation and changes nothing; undelegate of a positive
\* amount up to the record succeeds, pays exactly that amount from the
\* registry to the caller and lowers the record, the delegator's total and
\* the caller's total by exactly that amount.
C23_Undelegate == []C23_Answer /\ [][C23_Step]_vars

\* an owner has withdrawn part of its delegation: it holds a token again, one
\* token is still delegated, and withdrawing two is the refused case
C23_Witness ==
    \E c \in Holders, d \in Registrants :
        /\ delegations[c][d].amount = 1
        /\ totalDelegatedBy[c] = 1
        /\ balances[c] = 1
        /\ totalSupply = 3
        /\ UndelegateErr(c, d, 2) = "InsufficientDelegation"
        /\ UndelegateErr(c, d, 1) = "OK"

(***************************************************************************)
(* DelegateRegistry: aggregates, redelegate, frame                           *)
(***************************************************************************)
\* C28: in every reachable registry state getTotalDelegated(D) is the sum of
\* the amounts recorded for D over the owners, and getTotalDelegatedBy(O) is
\* the sum of the amounts recorded for O over the delegators; this includes
\* the states reached by a redelegate whose source and destination are the
\* same delegator.
C28_Aggregates ==
    \A x \in Addr :
        /\ getTotalDelegated(x) = DelegatedTo(x)
        /\ getTotalDelegatedBy(x) = DelegatedBy(x)

\* one owner has delegated to two delegators and one delegator has two owners
C28_Witness ==
    \E o \in Holders, d \in Registrants :
        /\ \E d2 \in Registrants \ {d} :
               delegations[o][d].amount > 0 /\ delegations[o][d2].amount > 0
        /\ \E o2 \in Holders \ {o} : delegations[o2][d].amount > 0
        /\ getTotalDelegated(d) = 2
        /\ getTotalDelegatedBy(o) = 2

\* the registry's bookkeeping as one value
Book ==
    [delegations |-> delegations,
     totalDelegated |-> totalDelegated,
     totalDelegatedBy |-> totalDelegatedBy,
     delegationTimestamps |-> delegationTimestamps,
     delegatorsToOwners |-> delegatorsToOwners,
     escrow |-> balances[REGISTRY]]

\* the bookkeeping a successful undelegate(delegator, amount) of caller leaves
UndelegateEffect(s, caller, delegator, amount) ==
    [delegations |-> [s.delegations EXCEPT ![caller][delegator] = Withdrawn(@, amount)],
     totalDelegated |-> [s.totalDelegated EXCEPT ![delegator] = @ - amount],
     totalDelegatedBy |-> [s.totalDelegatedBy EXCEPT ![caller] = @ - amount],
     delegationTimestamps |->
         IF s.delegations[caller][delegator].amount - amount = 0
         THEN [s.delegationTimestamps EXCEPT ![delegator][caller] = 0]
         ELSE s.delegationTimestamps,
     delegatorsToOwners |-> s.delegatorsToOwners,
     escrow |-> s.escrow - amount]

\* the bookkeeping a successful delegate(delegator, amount) of caller leaves
DelegateEffect(s, caller, delegator, amount) ==
    [delegations |-> [s.delegations EXCEPT ![caller][delegator] =
                         ToppedUp(@, delegator, amount)],
     totalDelegated |-> [s.totalDelegated EXCEPT ![delegator] = @ + amount],
     totalDelegatedBy |-> [s.totalDelegatedBy EXCEPT ![caller] = @ + amount],
     delegationTimestamps |-> [s.delegationTimestamps EXCEPT ![delegator][caller] = now],
     delegatorsToOwners |->
         IF s.delegationTimestamps[delegator][caller] = 0
         THEN [s.delegatorsToOwners EXCEPT ![delegator] = Append(@, caller)]
         ELSE s.delegatorsToOwners,
     escrow |-> s.escrow + amount]

\* undelegate(from, amount) followed by delegate(to, amount) at the same time
UndelegateThenDelegate(caller, fromDelegator, toDelegator, amount) ==
    DelegateEffect(UndelegateEffect(Book, caller, fromDelegator, amount),
                   caller, toDelegator, amount)

\* C29: whenever redelegate(from, to, amount) succeeds, the delegation
\* records, both aggregates, the delegation timestamps, the owner list read
\* by getVotingPower and the escrow balance are those left by the same caller
\* doing undelegate(from, amount) and then delegate(to, amount) at the same
\* time.
C29_RedelegateIsComposition ==
    [][\/ UNCHANGED vars
       \/ \A c \in Holders, f \in Registrants, t \in Registrants, n \in 1..MaxAmt :
             (RedelegateErr(c, f, t, n) = "OK" /\ Redelegate(c, f, t, n)) =>
                 Book' = UndelegateThenDelegate(c, f, t, n)]_vars

\* owner o itself calls delegate, undelegate or redelegate on the pair (o, d)
OwnerActsOn(o, d) ==
    \E n \in 1..MaxAmt :
        \/ Delegate(o, d, n)
        \/ Undelegate(o, d, n)
        \/ \E x \in Registrants : Redelegate(o, d, x, n) \/ Redelegate(o, x, d, n)

\* C30: the delegation record (O, D) - amount, delegatedAt, expiresAt -
\* changes only in a step in which O itself calls delegate, undelegate or
\* redelegate on D; calls by other owners, by the delegator and by the admin
\* setters leave it as it was.
C30_OwnerOnlyFrame ==
    [][\/ delegations' = delegations
       \/ \A o \in Addr, d \in Addr :
             delegations'[o][d] # delegations[o][d] => OwnerActsOn(o, d)]_vars

\* a record made before the expiry period was set, towards a delegator that
\* has since been deactivated and that another owner also delegated to later
C30_Witness ==
    \E o \in Holders, d \in Registrants :
        /\ delegations[o][d].amount > 0
        /\ delegations[o][d].expiresAt = 0
        /\ autoExpiryPeriod > 0
        /\ Deactivated(d)
        /\ \E o2 \in Holders \ {o} :
               /\ delegations[o2][d].amount > 0
               /\ delegations[o2][d].delegatedAt > delegations[o][d].delegatedAt

(***************************************************************************)
(* SecurityCouncil: approvals                                                *)
(***************************************************************************)
ApproverSet(id) == {actions[id].approvers[i] : i \in 1..Len(actions[id].approvers)}

C24_Answer ==
    \A id \in DOMAIN actions :
        LET ap == actions[id].approvers
        IN /\ Len(ap) >= 1
           /\ \A i, j \in 1..Len(ap) : i # j => ap[i] # ap[j]
           /\ ApproverSet(id) = approvals[id]
           /\ \A m \in ApproverSet(id) :
                  /\ ApproveEmergencyActionErr(m, id) # "OK"
                  /\ (isMember[m] /\ ~actions[id].executed) =>
                         ApproveEmergencyActionErr(m, id) = "AlreadyApproved"

\* member c creates an action: proposeEmergencyAction or one of the wrappers
Proposes(c) ==
    \/ ProposeEmergencyAction(c, "Custom", TARGET, "data")
    \/ CancelProposal(c)
    \/ PauseProtocol(c)
    \/ UnpauseProtocol(c)

C24_Step ==
    \/ actions' = actions
    \/ /\ actionCount' # actionCount =>
              \E c \in Proposers :
                  /\ isMember[c]
                  /\ Proposes(c)
                  /\ actions'[actionCount].approvers = <<c>>
       /\ \A id \in DOMAIN actions :
              \/ actions'[id].approvers = actions[id].approvers
              \/ \E c \in CouncilAddr \ ApproverSet(id) :
                     /\ ApproveEmergencyAction(c, id)
                     /\ actions'[id].approvers = Append(actions[id].approvers, c)

\* C24: the proposer is the first approver of an action, an approver's further
\* approveEmergencyAction on the same action fails (with AlreadyApproved while
\* the approver is a member and the action is not executed), and in every
\* reachable state an action's approver list holds each address at most once.
C24_NoDoubleCounting == []C24_Answer /\ [][C24_Step]_vars

\* a pending action approved by its proposer and by a second member
C24_Witness ==
    \E id \in DOMAIN actions :
        /\ Len(actions[id].approvers) >= 2
        /\ ~actions[id].executed
        /\ \A m \in ApproverSet(id) : ApproveEmergencyActionErr(m, id) = "AlreadyApproved"

(***************************************************************************)
(* SecurityCouncil: the cancelProposal wrapper                               *)
(***************************************************************************)
\* a pending action made by the cancelProposal wrapper that has the approvals
\* the threshold asks for
ApprovedCancelProposal(id) ==
    /\ id \in DOMAIN actions
    /\ actions[id].actionType = "CancelProposal"
    /\ actions[id].target = timelockAddress
    /\ ~actions[id].executed
    /\ isActionApproved(id)

\* C26: a CancelProposal action created by the cancelProposal wrapper, once
\* approved by threshold members, is executed successfully against the
\* Timelock by any member.
C26_CancelExecutes ==
    \A id \in ActionIds :
        ApprovedCancelProposal(id) =>
            \A m \in CouncilAddr :
                isMember[m] => ExecuteEmergencyActionErr(m, id, TRUE) = "OK"

(***************************************************************************)
(* SecurityCouncil: the event log                                            *)
(***************************************************************************)
\* C27: replaying the events gives the council's state: once a
\* ThresholdUpdated event has been emitted, the current threshold is the
\* newThreshold of the last one, that is, every change of the threshold emits
\* the event.
C27_ThresholdReplay ==
    thresholdUpdated # 0 => threshold = thresholdUpdated

(***************************************************************************)
(* Timelock: a failed target call                                            *)
(***************************************************************************)
C25_Answer ==
    \A h \in KnownHashes :
        ExecuteTransactionErr(governor, h) = "OK" =>
            /\ ExecuteTransactionResult(governor, h, FALSE) = "ExecutionFailed"
            /\ isQueued(h)

C25_Step ==
    \A c \in {GOV, GOV2}, h \in KnownHashes :
        (ExecuteTransactionErr(c, h) = "OK" /\ ExecuteTransaction(c, h, FALSE)) =>
            /\ UNCHANGED <<queuedTransactions, canceledTransactions, transactionEta,
                           executions>>
            /\ ExecuteTransactionResult(c, h, TRUE)' = "OK"

\* C25: when the target call of executeTransaction reverts, executeTransaction
\* fails with ExecutionFailed and the entry is left as it was (queued, not
\* canceled, same eta), so that it can be executed again inside the window
\* from eta to eta + GRACE_PERIOD.
C25_AtomicFailure == []C25_Answer /\ [][C25_Step]_vars

\* a queued entry past its eta that the governor can execute, after another
\* entry has been executed
C25_Witness ==
    \E h \in KnownHashes :
        /\ ExecuteTransactionErr(governor, h) = "OK"
        /\ now > h.eta
        /\ \E h2 \in DOMAIN executions : h2 # h /\ executions[h2] # <<>>

(***************************************************************************)
(* Timelock: the delay                                                       *)
(***************************************************************************)
C31_Answer ==
    /\ MINIMUM_DELAY <= delay /\ delay <= MAXIMUM_DELAY
    /\ \A h \in DOMAIN transactionEta : transactionEta[h] = h.eta
    /\ \A h \in DOMAIN executions :
           /\ h \in DOMAIN transactionEta
           /\ \A i \in 1..Len(executions[h]) : executions[h][i] >= transactionEta[h]
    /\ \A h \in KnownHashes, c \in {GOV, GOV2} :
           ExecuteTransactionResult(c, h, TRUE) = "OK" =>
               h \in DOMAIN transactionEta /\ now >= transactionEta[h]

C31_Step ==
    /\ \A h \in DOMAIN transactionEta :
           h \in DOMAIN transactionEta' /\ transactionEta'[h] = transactionEta[h]
    /\ \A h \in queuedTransactions' \ queuedTransactions :
           /\ transactionEta'[h] = now + delay
           /\ transactionEta'[h] - now >= MINIMUM_DELAY
           /\ transactionEta'[h] - now <= MAXIMUM_DELAY

\* C31: the eta of an entry is fixed at queueTransaction as now + delay and no
\* later setDelay changes it, so every successful executeTransaction of an
\* entry happens no earlier than its queueing time plus the delay then in
\* force, and that delay is between MINIMUM_DELAY and MAXIMUM_DELAY.
C31_TamperResistant == []C31_Answer /\ [][C31_Step]_vars

\* an entry queued under the minimum delay is executable at its eta although
\* the delay has since been raised to the maximum
C31_Witness ==
    \E h \in DOMAIN transactionEta :
        /\ ExecuteTransactionResult(governor, h, TRUE) = "OK"
        /\ delay = MAXIMUM_DELAY
        /\ now < GenesisTime + delay
        /\ transactionEta[h] = GenesisTime + MINIMUM_DELAY

(***************************************************************************)
(* Timelock: calls made from inside the target call                          *)
(***************************************************************************)
\* queuedTransactions as the target sees it while executeTransaction(executing)
\* is calling it: the entry has been marked not queued before the call
MidCallQueued(executing) == queuedTransactions \ {executing}

\* a nested executeTransaction that is not stopped by the reentrancy guard
NestedExecuteErr_NoGuard(caller, txHash, executing) ==
    IF caller # governor THEN "NotGovernor"
    ELSE IF txHash \notin MidCallQueued(executing) THEN "TransactionNotQueued"
    ELSE IF txHash \in canceledTransactions THEN "TransactionAlreadyCanceled"
    ELSE IF now < txHash.eta THEN "TransactionNotReady"
    ELSE IF now > txHash.eta + GRACE_PERIOD THEN "TransactionExpired"
    ELSE "OK"

\* the answer to executeTransaction(txHash) called by caller from inside the
\* target call of executeTransaction(executing): onlyGovernor, then nonReentrant,
\* whose guard is held by the outer call
NestedExecuteErr(caller, txHash, executing) ==
    IF caller # governor THEN "NotGovernor"
    ELSE "ReentrancyGuardReentrantCall"

C32_Answer ==
    /\ \A h \in KnownHashes :
           ExecuteTransactionErr(governor, h) = "OK" =>
               /\ h \notin MidCallQueued(h)
               /\ \A c \in {GOV, GOV2, TARGET}, h2 \in KnownHashes :
                      NestedExecuteErr(c, h2, h) # "OK"
    /\ \A h \in KnownHashes, c \in {GOV, GOV2} :
           h \notin queuedTransactions => ExecuteTransactionResult(c, h, TRUE) # "OK"

C32_Step ==
    \A h \in DOMAIN executions' :
        ExecutionsOf(h)' # ExecutionsOf(h) =>
            /\ h \in queuedTransactions
            /\ h \notin queuedTransactions'
            /\ Len(ExecutionsOf(h)') = Len(ExecutionsOf(h)) + 1

getPendingActions == pendingActionIds

\* C33: in every reachable council state getPendingActions() holds, exactly
\* once each, the ids of the actions that were proposed (by
\* proposeEmergencyAction or by a wrapper) and have been neither executed nor
\* canceled.
C33_PendingList ==
    /\ \A i, j \in 1..Len(getPendingActions) :
           i # j => getPendingActions[i] # getPendingActions[j]
    /\ {getPendingActions[i] : i \in 1..Len(getPendingActions)}
          = {id \in 0..(actionCount - 1) : Open(id)}
    /\ DOMAIN actions = 0..(actionCount - 1)

\* of two proposed actions the first has been executed or canceled, so that the
\* second was moved into its place in the list
C33_Witness ==
    /\ actionCount = 2
    /\ actions[0].executed
    /\ ~actions[1].executed
    /\ getPendingActions = <<1>>

(***************************************************************************)
(* DAOGovernor: a canceled proposal                                          *)
(***************************************************************************)
C34_Answer ==
    \A id \in 1..proposalCount :
        proposals[id].canceled =>
            /\ state(id) = "Canceled"
            /\ QueueErr(id) # "OK"
            /\ ExecuteErr(id, TRUE) # "OK"
            /\ \A c \in Addr : CastVoteErr(c, id) # "OK"
            /\ \A c \in Cancelers : CancelErr(c, id) # "OK"

C34_Step ==
    \A id \in 1..proposalCount :
        /\ state(id) = "Canceled" => state(id)' = "Canceled"
        /\ proposals[id].canceled => proposals'[id] = proposals[id]
        /\ (~proposals[id].canceled /\ proposals'[id].canceled) =>
               /\ state(id) \in {"Pending", "Active", "Succeeded", "Queued", "Defeated"}
               /\ \E c \in Cancelers : CancelErr(c, id) = "OK" /\ Cancel(c, id)

\* C34: once cancel(id) has succeeded, from Pending, Active, Succeeded or
\* Queued, the state of the proposal is Canceled at every later time and no
\* later castVote, queue or execute on that id succeeds.
C34_CancelFinal == []C34_Answer /\ [][C34_Step]_vars

\* a proposal canceled after it was queued, at a time at which the Timelock
\* would still execute its entry for the governor
C34_Witness ==
    \E id \in 1..proposalCount :
        /\ proposals[id].canceled
        /\ proposals[id].eta # 0
        /\ ExecuteTransactionErr(GOV, TxHash(proposals[id].payload, proposals[id].eta)) = "OK"

(***************************************************************************)
(* DelegateRegistry: voting power against the escrowed stake                 *)
(***************************************************************************)
\* C36: for every delegator D, in every reachable state, getVotingPower(D) is
\* at most getTotalDelegated(D), after any sequence of delegate, undelegate
\* (a full withdrawal followed by a new delegation of the same owner
\* included) and redelegate calls.
C36_PowerWithinStake ==
    \A d \in Addr :
        getVotingPower(d) # Reverted => getVotingPower(d) <= getTotalDelegated(d)

(***************************************************************************)
(* DelegateRegistry: undelegate and maturity                                 *)
(***************************************************************************)
\* a delegation younger than the period requirement counts nothing
C35_Answer ==
    \A o \in Holders, d \in Registrants :
        (/\ delegationTimestamps[d][o] > 0
         /\ now < delegationTimestamps[d][o] + delegationPeriodRequirement) =>
            Counted(d, o, now) = 0

C35_Step ==
    \/ delegations' = delegations
    \/ \A o \in Holders, d \in Registrants, n \in 1..MaxAmt :
          /\ (UndelegateErr(o, d, n) = "OK" /\ Undelegate(o, d, n)) =>
                IF n < delegations[o][d].amount
                THEN /\ delegationTimestamps'[d][o] = delegationTimestamps[d][o]
                     /\ delegations'[o][d].delegatedAt = delegations[o][d].delegatedAt
                     /\ delegations'[o][d].expiresAt = delegations[o][d].expiresAt
                     /\ Counted(d, o, now) = delegations[o][d].amount =>
                            /\ Counted(d, o, now)' = delegations[o][d].amount - n
                            /\ getVotingPower(d)' =
                                   getVotingPower(d) - n * Occurrences(delegatorsToOwners[d], o)
                     /\ balances'[o] = balances[o] + n
                ELSE /\ delegations'[o][d] = NoDelegation
                     /\ delegationTimestamps'[d][o] = 0
                     /\ Counted(d, o, now)' = 0
          /\ (/\ DelegateErr(o, d, n) = "OK"
              /\ Delegate(o, d, n)
              /\ delegationTimestamps[d][o] = 0) =>
                /\ delegationTimestamps'[d][o] = now
                /\ delegations'[o][d].delegatedAt = now
                /\ delegationPeriodRequirement > 0 => Counted(d, o, now)' = 0

Recorded == DelegatedBy("a") + DelegatedBy("b") + DelegatedBy("c")

\* C37: in every reachable state the registry's vTON balance is at least the
\* sum of all recorded delegation amounts, so that the transfer of every
\* undelegate that passes the InsufficientDelegation check can be paid.
C37_Solvency ==
    /\ balances[REGISTRY] >= Recorded
    /\ \A o \in Addr, d \in Addr, n \in 1..MaxAmt :
           n <= delegations[o][d].amount =>
               /\ balances[REGISTRY] >= n
               /\ UndelegateErr(o, d, n) # "ERC20InsufficientBalance"

\* the escrow holds the stake of two owners after one of them has emptied one
\* of its delegations
C37_Witness ==
    /\ Recorded >= 2
    /\ balances[REGISTRY] = Recorded
    /\ \E o, o2 \in Holders, d, d2 \in Registrants :
           /\ o2 # o
           /\ Occurrences(delegatorsToOwners[d], o) >= 1
           /\ delegations[o][d].amount = 0
           /\ delegations[o][d2].amount >= 1
           /\ delegations[o2][d2].amount >= 1

(***************************************************************************)
(* DelegateRegistry: withdrawal                                              *)
(***************************************************************************)
Immature(o, d) == now < delegations[o][d].delegatedAt + delegationPeriodRequirement
Expired(o, d) == delegations[o][d].expiresAt # 0 /\ delegations[o][d].expiresAt <= now

C38_Answer ==
    \A o \in Addr, d \in Addr :
        \A x \in 1..delegations[o][d].amount : UndelegateErr(o, d, x) = "OK"

C38_Step ==
    \/ UNCHANGED vars
    \/ \A o \in Holders, d \in Registrants, x \in 1..MaxAmt :
          (x <= delegations[o][d].amount /\ Undelegate(o, d, x)) =>
              /\ balances'[o] = balances[o] + x
              /\ delegations'[o][d].amount = delegations[o][d].amount - x

\* C38: whenever owner O has a recorded amount a > 0 with delegator D,
\* undelegate(D, x) by O succeeds for every 0 < x <= a, whether or not D has
\* been deactivated, the delegation is immature or expired, or delegationCap,
\* delegationPeriodRequirement or autoExpiryPeriod have been changed.
C38_Withdrawal == []C38_Answer /\ [][C38_Step]_vars

\* an owner can withdraw an expired delegation from a deactivated delegator
\* that stands above the cap now in force, and an immature one besides
C38_Witness ==
    \E o \in Holders, d \in Registrants :
        /\ delegations[o][d].amount >= 1
        /\ Deactivated(d)
        /\ Expired(o, d)
        /\ totalDelegated[d] > MaxDelegation
        /\ UndelegateErr(o, d, 1) = "OK"
        /\ \E o2 \in Holders, d2 \in Registrants :
               /\ delegations[o2][d2].amount >= 1
               /\ Immature(o2, d2)
               /\ UndelegateErr(o2, d2, 1) = "OK"

(***************************************************************************)
(* SecurityCouncil: whose approvals count                                    *)
(***************************************************************************)
\* the approvers of an action that are council members now
SittingApprovers(id) == {a \in ApproverSet(id) : isMember[a]}

\* C39: whenever executeEmergencyAction succeeds, at least threshold of the
\* action's approvers are council members at that moment.
C39_SittingMembersApprove ==
    \A id \in DOMAIN actions, m \in CouncilAddr :
        ExecuteEmergencyActionErr(m, id, TRUE) = "OK" =>
            Cardinality(SittingApprovers(id)) >= threshold

(***************************************************************************)
(* DelegateRegistry: expiry                                                  *)
(***************************************************************************)
\* owner o delegates or redelegates amount n into the record (o, d)
DelegatesInto(o, d, n) ==
    \/ DelegateErr(o, d, n) = "OK" /\ Delegate(o, d, n)
    \/ \E f \in Registrants : RedelegateErr(o, f, d, n) = "OK" /\ Redelegate(o, f, d, n)

\* C40: after a successful delegate or redelegate into (O, D) the record's
\* expiresAt is now + autoExpiryPeriod when autoExpiryPeriod > 0 and 0 (never
\* expires) when autoExpiryPeriod = 0.
C40_ExpiryFollowsSetting ==
    [][\/ delegations' = delegations
       \/ \A o \in Holders, d \in Registrants, n \in 1..MaxAmt :
             DelegatesInto(o, d, n) =>
                 delegations'[o][d].expiresAt =
                     IF autoExpiryPeriod > 0 THEN now + autoExpiryPeriod ELSE 0]_vars

====
